---- MODULE Spec2Model ----
(***************************************************************************)
(* A model of the 3CB combat engine: the card and permanent value types,   *)
(* the combat-damage resolver, the action model (enumerateLegalActions /   *)
(* applyAction) and the minimax search of simulateMatchup.                 *)
(*                                                                         *)
(* JavaScript arrays are sequences; a JavaScript Map is a sequence of      *)
(* [key, val] entries in insertion order; hand indices and permanent ids   *)
(* are 0-based as in the source.                                           *)
(***************************************************************************)
EXTENDS Integers, Sequences, FiniteSets, TLC

(***************************************************************************)
(* Bounds of the model.                                                    *)
(***************************************************************************)
\* the largest maxDepth handed to simulateMatchup
MaxSearchDepth == 14
\* the largest number of permanents (attackers and blockers) in one combat
MaxCombatants == 3
\* the number of calls of simulateMatchup made one after the other
MaxCalls == 3
\* the number of player turns a game is played for: player 0's and player 1's
\* part of a turn count one each
MaxPlayerTurns == 4

\* the largest number of potential blockers enumerateBlockAssignments is given
MaxBlockers == 3

\* the largest number of permanents on the battlefield of a state that is hashed
MaxBoard == 2

\* the largest number of cards in a deck handed to the preflight check of
\* simulateMatchup
MaxDeckSize == 2

(***************************************************************************)
(* card-types: Card, Ability, hasUnresolvedAbilities, getKeywords          *)
(***************************************************************************)
Keyword(k) == [kind |-> "keyword", keyword |-> k]

UnresolvedAbility == [kind |-> "unresolved", keyword |-> "none"]

\* power / toughness are optional in the source: pt is <<>> when absent and
\* <<power, toughness>> when present.
Creature(n, p, t, kws) ==
    [name |-> n, types |-> {"creature"}, pt |-> <<p, t>>,
     abilities |-> [i \in 1..Len(kws) |-> Keyword(kws[i])]]

\* looks at the first ability only
hasUnresolvedAbilities_firstOnly(card) ==
    Len(card.abilities) > 0 /\ card.abilities[1].kind = "unresolved"

hasUnresolvedAbilities(card) ==
    \E i \in 1..Len(card.abilities) : card.abilities[i].kind = "unresolved"

getKeywords(card) ==
    {card.abilities[i].keyword :
        i \in {j \in 1..Len(card.abilities) : card.abilities[j].kind = "keyword"}}

(***************************************************************************)
(* Generic sequence helpers (Array.prototype.flat; filter is SelectSeq).    *)
(***************************************************************************)
RECURSIVE Flat(_)
Flat(ss) == IF ss = <<>> THEN <<>> ELSE Head(ss) \o Flat(Tail(ss))

Range(s) == {s[i] : i \in 1..Len(s)}

(***************************************************************************)
(* game-state: Permanent, PlayerState, GameState and their helpers         *)
(***************************************************************************)
StartingLife == 20

\* CombatState | null: isNull marks the null value
NoCombat == [isNull |-> TRUE, attackers |-> <<>>, blockers |-> <<>>]

createInitialState(deck0, deck1) ==
    [activePlayer |-> 0,
     players |-> [i \in {0, 1} |->
                    [life |-> StartingLife,
                     hand |-> IF i = 0 THEN deck0 ELSE deck1,
                     battlefield |-> <<>>,
                     graveyard |-> <<>>]],
     turn |-> 1,
     phase |-> "main_precombat",
     combat |-> NoCombat,
     stateHistory |-> {},
     nextPermanentId |-> 0]

opponent(player) == IF player = 0 THEN 1 ELSE 0

getActivePlayer(state) == state.players[state.activePlayer]

getDefendingPlayer(state) == state.players[opponent(state.activePlayer)]

\* the id handed in is not used
createPermanent_idZero(card, id) ==
    [card |-> card, tapped |-> FALSE, summoningSick |-> TRUE,
     damageMarked |-> 0, isToken |-> FALSE, id |-> 0]

createPermanent(card, id) ==
    [card |-> card, tapped |-> FALSE, summoningSick |-> TRUE,
     damageMarked |-> 0, isToken |-> FALSE, id |-> id]

hasKeyword(perm, keyword) == keyword \in getKeywords(perm.card)

canAttack(perm) ==
    IF perm.tapped THEN FALSE
    ELSE IF hasKeyword(perm, "defender") THEN FALSE
    ELSE IF /\ perm.summoningSick
            /\ ~hasKeyword(perm, "haste")
            /\ ~hasKeyword(perm, "vigilance")
            /\ ~hasKeyword(perm, "haste") THEN FALSE
    ELSE "creature" \in perm.card.types

canBlock(blocker, attacker) ==
    IF blocker.tapped THEN FALSE
    ELSE IF "creature" \notin blocker.card.types THEN FALSE
    ELSE IF /\ hasKeyword(attacker, "flying")
            /\ ~hasKeyword(blocker, "flying")
            /\ ~hasKeyword(blocker, "reach") THEN FALSE
    ELSE TRUE

\* card.power ?? 0
getEffectivePower(perm) == IF perm.card.pt = <<>> THEN 0 ELSE perm.card.pt[1]

\* the power is read in place of the toughness
getEffectiveToughness_power(perm) == IF perm.card.pt = <<>> THEN 0 ELSE perm.card.pt[1]

\* card.toughness ?? 0
getEffectiveToughness(perm) == IF perm.card.pt = <<>> THEN 0 ELSE perm.card.pt[2]

\* deathtouch is looked at before indestructible
isLethalDamage_deathtouchFirst(perm, damageAmount, fromDeathtouch) ==
    IF fromDeathtouch /\ damageAmount > 0 THEN TRUE
    ELSE IF hasKeyword(perm, "indestructible") THEN FALSE
    ELSE damageAmount >= getEffectiveToughness(perm)

isLethalDamage(perm, damageAmount, fromDeathtouch) ==
    IF hasKeyword(perm, "indestructible") THEN FALSE
    ELSE IF fromDeathtouch /\ damageAmount > 0 THEN TRUE
    ELSE damageAmount >= getEffectiveToughness(perm)

(***************************************************************************)
(* hashState.  The key is a string in the source; here it is the tuple of  *)
(* the parts the source joins with "|".  Array.prototype.sort orders the   *)
(* "name:T|U:S|R" strings by code unit: card names of the model are        *)
(* distinct capitalised words none of which is a prefix of another, so the *)
(* order is the alphabetical order of the names, then "T" < "U", then      *)
(* "R" < "S".                                                              *)
(***************************************************************************)
NameOrder ==
    <<"Angel", "Bat", "Bear", "Brute", "Cobra", "Dragon", "Elephant", "Giant",
      "Harpy", "Hydra", "Knight", "Lancer", "Mystic", "Ogre", "Ox", "Raider",
      "Relic", "Seer", "Spider", "Squire", "Troll", "Viper", "Wall", "Zealot">>

NameRank(n) == CHOOSE i \in 1..Len(NameOrder) : NameOrder[i] = n

\* s1 < s2 for two "name:T|U:S|R" strings, given as <<name, tapped, sick>>
PartLess(a, b) ==
    \/ NameRank(a[1]) < NameRank(b[1])
    \/ /\ a[1] = b[1]
       /\ \/ a[2] = "T" /\ b[2] = "U"
          \/ a[2] = b[2] /\ a[3] = "R" /\ b[3] = "S"

RECURSIVE InsertSorted(_, _)
InsertSorted(x, s) ==
    IF s = <<>> THEN <<x>>
    ELSE IF PartLess(x, Head(s)) THEN <<x>> \o s
    ELSE <<Head(s)>> \o InsertSorted(x, Tail(s))

\* the parts are joined in the order they are in
SortParts_asGiven(s) == s

RECURSIVE SortParts(_)
SortParts(s) == IF s = <<>> THEN <<>> ELSE InsertSorted(Head(s), SortParts(Tail(s)))

hashState(state) ==
    LET boardParts(p) ==
            SortParts([k \in 1..Len(p.battlefield) |->
                <<p.battlefield[k].card.name,
                  IF p.battlefield[k].tapped THEN "T" ELSE "U",
                  IF p.battlefield[k].summoningSick THEN "S" ELSE "R">>])
        handParts(p) ==
            SortParts([k \in 1..Len(p.hand) |-> <<p.hand[k].name, "U", "R">>])
        playerParts(i) ==
            <<state.players[i].life,
              boardParts(state.players[i]),
              [k \in 1..Len(state.players[i].hand) |-> handParts(state.players[i])[k][1]]>>
    IN  <<state.activePlayer, state.phase, playerParts(0), playerParts(1)>>

(***************************************************************************)
(* JavaScript Map: a sequence of [key, val] entries in insertion order.    *)
(***************************************************************************)
MapHas(m, k) == \E i \in 1..Len(m) : m[i].key = k

MapGet(m, k) == m[CHOOSE i \in 1..Len(m) : m[i].key = k].val

\* Map.prototype.set: an existing key keeps its place, a new key goes last
MapSet(m, k, v) ==
    IF MapHas(m, k)
    THEN [i \in 1..Len(m) |-> IF m[i].key = k THEN [key |-> k, val |-> v] ELSE m[i]]
    ELSE Append(m, [key |-> k, val |-> v])

MapValues(m) == [i \in 1..Len(m) |-> m[i].val]

Min(a, b) == IF a < b THEN a ELSE b

Max(a, b) == IF a > b THEN a ELSE b

(***************************************************************************)
(* combat: resolveCombatDamage                                             *)
(*                                                                         *)
(* The accumulator acc carries the function's locals: damageToPermament    *)
(* (damage), lifeDelta, and two ghost logs that record what the function   *)
(* does without influencing it: assignments (one DamageAssignment per      *)
(* addDamage call and per damage dealt to the player, targetId = Player)   *)
(* and lifeGains (one entry per lifelink addition to lifeDelta).           *)
(***************************************************************************)
Player == -1

addDamage(map, targetId, amount, fromDeathtouch) ==
    IF MapHas(map, targetId)
    THEN MapSet(map, targetId,
                [total |-> MapGet(map, targetId).total + amount,
                 fromDeathtouch |-> MapGet(map, targetId).fromDeathtouch \/ fromDeathtouch])
    ELSE MapSet(map, targetId, [total |-> amount, fromDeathtouch |-> fromDeathtouch])

DamageAssignment(sourceId, targetId, amount) ==
    [sourceId |-> sourceId, targetId |-> targetId, amount |-> amount]

\* addDamage(damageToPermament, ...) on the accumulator, logged
DealToPermanent(acc, source, targetId, amount) ==
    [acc EXCEPT
        !.damage = addDamage(acc.damage, targetId, amount, hasKeyword(source, "deathtouch")),
        !.assignments = Append(@, DamageAssignment(source.id, targetId, amount))]

\* lifeDelta[defendingPlayer] -= amount, logged
DealToPlayer(acc, source, defendingPlayer, amount) ==
    [acc EXCEPT
        !.lifeDelta[defendingPlayer] = @ - amount,
        !.assignments = Append(@, DamageAssignment(source.id, Player, amount))]

\* lifeDelta[player] += amount for a lifelink source, logged
GainLife(acc, source, player, amount) ==
    [acc EXCEPT
        !.lifeDelta[player] = @ + amount,
        !.lifeGains = Append(@, [sourceId |-> source.id, player |-> player, amount |-> amount])]

\* a double striker is treated as a first striker only
dealsDamageInStep_once(perm, isFirstStrike) ==
    isFirstStrike = (hasKeyword(perm, "first_strike") \/ hasKeyword(perm, "double_strike"))

dealsDamageInStep(perm, isFirstStrike) ==
    LET hasFirstStrike ==
            hasKeyword(perm, "first_strike") \/ hasKeyword(perm, "double_strike")
        hasRegularStrike ==
            ~hasKeyword(perm, "first_strike") \/ hasKeyword(perm, "double_strike")
    IN  IF isFirstStrike /\ ~hasFirstStrike THEN FALSE
        ELSE IF ~isFirstStrike /\ ~hasRegularStrike THEN FALSE
        ELSE TRUE

RECURSIVE assignLethal_ignoresDeathtouch(_, _, _, _, _)
\* lethal damage is the blocker's toughness, deathtouch or not
assignLethal_ignoresDeathtouch(acc, attacker, blockers, k, remainingDamage) ==
    IF k > Len(blockers) \/ remainingDamage <= 0
    THEN [acc |-> acc, remainingDamage |-> remainingDamage]
    ELSE LET blocker == blockers[k]
             lethalAmount ==
                 Max(0, getEffectiveToughness(blocker)
                          - (IF MapHas(acc.damage, blocker.id)
                             THEN MapGet(acc.damage, blocker.id).total ELSE 0))
             assigned == Min(remainingDamage, lethalAmount)
         IN  assignLethal_ignoresDeathtouch(
                 DealToPermanent(acc, attacker, blocker.id, assigned),
                 attacker, blockers, k + 1, remainingDamage - assigned)

\* First pass: assign lethal damage to each blocker in order.
\* Returns [acc, remainingDamage].
RECURSIVE assignLethal(_, _, _, _, _)
assignLethal(acc, attacker, blockers, k, remainingDamage) ==
    IF k > Len(blockers) \/ remainingDamage <= 0
    THEN [acc |-> acc, remainingDamage |-> remainingDamage]
    ELSE LET blocker == blockers[k]
             lethalAmount ==
                 IF hasKeyword(attacker, "deathtouch") THEN 1
                 ELSE Max(0, getEffectiveToughness(blocker)
                              - (IF MapHas(acc.damage, blocker.id)
                                 THEN MapGet(acc.damage, blocker.id).total ELSE 0))
             assigned == Min(remainingDamage, lethalAmount)
         IN  assignLethal(DealToPermanent(acc, attacker, blocker.id, assigned),
                          attacker, blockers, k + 1, remainingDamage - assigned)

\* the excess of an attacker without trample is dropped
assignExcess_dropped(acc, attacker, blockers, activePlayer, remainingDamage) ==
    IF remainingDamage > 0 /\ hasKeyword(attacker, "trample")
    THEN [acc |-> DealToPlayer(acc, attacker, opponent(activePlayer), remainingDamage),
          remainingDamage |-> 0]
    ELSE [acc |-> acc, remainingDamage |-> 0]

\* Excess damage: trample goes to the defending player, otherwise to the last
\* blocker.  Returns [acc, remainingDamage].
assignExcess(acc, attacker, blockers, activePlayer, remainingDamage) ==
    IF remainingDamage > 0
    THEN IF hasKeyword(attacker, "trample")
         THEN LET a1 == DealToPlayer(acc, attacker, opponent(activePlayer), remainingDamage)
                  a2 == IF hasKeyword(attacker, "lifelink")
                        THEN GainLife(a1, attacker, activePlayer, remainingDamage)
                        ELSE a1
              IN  [acc |-> a2, remainingDamage |-> 0]
         ELSE [acc |-> DealToPermanent(acc, attacker, blockers[Len(blockers)].id,
                                       remainingDamage),
               remainingDamage |-> 0]
    ELSE [acc |-> acc, remainingDamage |-> remainingDamage]

\* The body of the loop over the attackers.
attackerDamage(acc, attacker, blockerMap, activePlayer, isFirstStrike) ==
    LET power == getEffectivePower(attacker)
        blockers == IF MapHas(blockerMap, attacker.id)
                    THEN MapGet(blockerMap, attacker.id) ELSE <<>>
    IN  IF power <= 0 THEN acc
        ELSE IF ~dealsDamageInStep(attacker, isFirstStrike) THEN acc
        ELSE IF Len(blockers) = 0
        THEN LET a1 == DealToPlayer(acc, attacker, opponent(activePlayer), power)
             IN  IF hasKeyword(attacker, "lifelink")
                 THEN GainLife(a1, attacker, activePlayer, power)
                 ELSE a1
        ELSE LET first == assignLethal(acc, attacker, blockers, 1, power)
                 rest == assignExcess(first.acc, attacker, blockers, activePlayer,
                                      first.remainingDamage)
                 damageDealt == power - rest.remainingDamage
             IN  IF hasKeyword(attacker, "lifelink")
                 THEN GainLife(rest.acc, attacker, activePlayer, damageDealt)
                 ELSE rest.acc

RECURSIVE attackersDamage(_, _, _, _, _, _)
attackersDamage(acc, attackers, k, blockerMap, activePlayer, isFirstStrike) ==
    IF k > Len(attackers) THEN acc
    ELSE attackersDamage(
            attackerDamage(acc, attackers[k], blockerMap, activePlayer, isFirstStrike),
            attackers, k + 1, blockerMap, activePlayer, isFirstStrike)

\* Array.prototype.find on the attackers: the first one with the id, or none
findById(perms, id) == SelectSeq(perms, LAMBDA p : p.id = id)

\* The body of the inner loop over the blockers of one attacker.
blockerDamage(acc, attacker, blocker, activePlayer, isFirstStrike) ==
    LET blockerPower == getEffectivePower(blocker)
    IN  IF blockerPower <= 0 THEN acc
        ELSE IF ~dealsDamageInStep(blocker, isFirstStrike) THEN acc
        ELSE LET a1 == DealToPermanent(acc, blocker, attacker.id, blockerPower)
             IN  IF hasKeyword(blocker, "lifelink")
                 THEN GainLife(a1, blocker, opponent(activePlayer), blockerPower)
                 ELSE a1

RECURSIVE blockersDamage(_, _, _, _, _, _, _)
\* the loops over blockerMap (entry e) and over the entry's blockers (index k)
blockersDamage(acc, attackers, blockerMap, e, k, activePlayer, isFirstStrike) ==
    IF e > Len(blockerMap) THEN acc
    ELSE LET found == findById(attackers, blockerMap[e].key)
         IN  IF found = <<>> \/ k > Len(blockerMap[e].val)
             THEN blockersDamage(acc, attackers, blockerMap, e + 1, 1,
                                 activePlayer, isFirstStrike)
             ELSE blockersDamage(
                    blockerDamage(acc, found[1], blockerMap[e].val[k],
                                  activePlayer, isFirstStrike),
                    attackers, blockerMap, e, k + 1, activePlayer, isFirstStrike)

\* Determine which permanents are destroyed.
destroyedOf(allInvolved, damage) ==
    LET dead == SelectSeq(allInvolved,
                    LAMBDA perm :
                        /\ MapHas(damage, perm.id)
                        /\ isLethalDamage(perm, MapGet(damage, perm.id).total,
                                          MapGet(damage, perm.id).fromDeathtouch))
    IN  [i \in 1..Len(dead) |-> dead[i].id]

resolveCombatDamage(attackers, blockerMap, activePlayer, isFirstStrike) ==
    LET acc0 == [damage |-> <<>>, lifeDelta |-> [i \in {0, 1} |-> 0],
                 assignments |-> <<>>, lifeGains |-> <<>>]
        acc1 == attackersDamage(acc0, attackers, 1, blockerMap, activePlayer,
                                isFirstStrike)
        acc2 == blockersDamage(acc1, attackers, blockerMap, 1, 1, activePlayer,
                               isFirstStrike)
        allInvolved == attackers \o Flat(MapValues(blockerMap))
    IN  [destroyed |-> destroyedOf(allInvolved, acc2.damage),
         lifeDelta |-> acc2.lifeDelta,
         damage |-> acc2.damage,
         assignments |-> acc2.assignments,
         lifeGains |-> acc2.lifeGains]

\* only the attackers are scanned
hasFirstStrikers_attackersOnly(attackers, blockerMap) ==
    \E i \in 1..Len(attackers) :
        hasKeyword(attackers[i], "first_strike") \/ hasKeyword(attackers[i], "double_strike")

hasFirstStrikers(attackers, blockerMap) ==
    LET allBlockers == Flat(MapValues(blockerMap))
        striker(p) == hasKeyword(p, "first_strike") \/ hasKeyword(p, "double_strike")
    IN  \/ \E i \in 1..Len(attackers) : striker(attackers[i])
        \/ \E i \in 1..Len(allBlockers) : striker(allBlockers[i])

(***************************************************************************)
(* combat: enumerateBlockAssignments                                       *)
(***************************************************************************)
\* a flying attacker can be blocked by any untapped creature
canBlockAttacker_groundBlocksFlyer(blocker, attacker) ==
    IF blocker.tapped THEN FALSE
    ELSE "creature" \in blocker.card.types

canBlockAttacker(blocker, attacker) ==
    IF blocker.tapped THEN FALSE
    ELSE IF "creature" \notin blocker.card.types THEN FALSE
    ELSE IF /\ hasKeyword(attacker, "flying")
            /\ ~hasKeyword(blocker, "flying")
            /\ ~hasKeyword(blocker, "reach") THEN FALSE
    ELSE TRUE

RECURSIVE generateAssignments_firstTarget(_, _, _)
\* a blocker blocks the first attacker it can block or none
generateAssignments_firstTarget(blockerOptions, index, current) ==
    IF index > Len(blockerOptions) THEN <<current>>
    ELSE LET option == blockerOptions[index]
             existing(attackerId) ==
                 IF MapHas(current, attackerId) THEN MapGet(current, attackerId) ELSE <<>>
         IN  generateAssignments_firstTarget(blockerOptions, index + 1, current)
             \o (IF option.canBlock = <<>> THEN <<>>
                 ELSE generateAssignments_firstTarget(blockerOptions, index + 1,
                        MapSet(current, option.canBlock[1],
                               Append(existing(option.canBlock[1]), option.blocker.id))))

RECURSIVE generateAssignments(_, _, _)
\* The results pushed by generateAssignments(blockerOptions, index, current, results),
\* in order.  current is restored after every recursive call in the source, so
\* each call starts from the Map it was given.
generateAssignments(blockerOptions, index, current) ==
    IF index > Len(blockerOptions) THEN <<current>>
    ELSE LET option == blockerOptions[index]
             existing(attackerId) ==
                 IF MapHas(current, attackerId) THEN MapGet(current, attackerId) ELSE <<>>
         IN  generateAssignments(blockerOptions, index + 1, current)
             \o Flat([j \in 1..Len(option.canBlock) |->
                    generateAssignments(blockerOptions, index + 1,
                        MapSet(current, option.canBlock[j],
                               Append(existing(option.canBlock[j]), option.blocker.id)))])

\* no assignment is filtered out
menaceOk_unfiltered(attackers, assignment) == TRUE

\* the callback of assignments.filter: no menace attacker has exactly one blocker
menaceOk(attackers, assignment) ==
    \A i \in 1..Len(attackers) :
       hasKeyword(attackers[i], "menace") =>
           Len(IF MapHas(assignment, attackers[i].id)
               THEN MapGet(assignment, attackers[i].id) ELSE <<>>) # 1

enumerateBlockAssignments(attackers, potentialBlockers) ==
    IF Len(attackers) = 0 THEN << <<>> >>
    ELSE LET blockerOptions ==
                 [i \in 1..Len(potentialBlockers) |->
                    LET legal == SelectSeq(attackers,
                                    LAMBDA a : canBlockAttacker(potentialBlockers[i], a))
                    IN  [blocker |-> potentialBlockers[i],
                         canBlock |-> [k \in 1..Len(legal) |-> legal[k].id]]]
             assignments == generateAssignments(blockerOptions, 1, <<>>)
         IN  SelectSeq(assignments, LAMBDA assignment : menaceOk(attackers, assignment))

(***************************************************************************)
(* game-actions: actions and their enumeration                             *)
(***************************************************************************)
CastAction(cardIndices) ==
    [type |-> "cast", cardIndices |-> cardIndices, attackerIds |-> <<>>,
     assignment |-> <<>>]

DeclareAttackersAction(attackerIds) ==
    [type |-> "declare_attackers", cardIndices |-> <<>>, attackerIds |-> attackerIds,
     assignment |-> <<>>]

DeclareBlockersAction(assignment) ==
    [type |-> "declare_blockers", cardIndices |-> <<>>, attackerIds |-> <<>>,
     assignment |-> assignment]

PassAction ==
    [type |-> "pass", cardIndices |-> <<>>, attackerIds |-> <<>>, assignment |-> <<>>]

RECURSIVE generateSubsets(_)
\* mask = 0 .. 2^n - 1, bit i selecting ids[i]: the subsets without the last id
\* (high bit clear) come first, then the same subsets with it appended
generateSubsets(ids) ==
    IF Len(ids) = 0 THEN << <<>> >>
    ELSE LET rest == generateSubsets(SubSeq(ids, 1, Len(ids) - 1))
         IN  rest \o [k \in 1..Len(rest) |-> Append(rest[k], ids[Len(ids)])]

enumerateMainPhaseActions(state) ==
    LET player == getActivePlayer(state)
        indices == [i \in 1..Len(player.hand) |-> i - 1]
        subsets == generateSubsets(indices)
    IN  [k \in 1..Len(subsets) |-> CastAction(subsets[k])]

enumerateAttackerActions(state) ==
    LET player == getActivePlayer(state)
        eligible == SelectSeq(player.battlefield, canAttack)
        subsets == generateSubsets([i \in 1..Len(eligible) |-> eligible[i].id])
    IN  [k \in 1..Len(subsets) |-> DeclareAttackersAction(subsets[k])]

\* ids.map((id) => battlefield.find((p) => p.id === id)).filter(defined)
permsOfIds(ids, battlefield) ==
    Flat([i \in 1..Len(ids) |->
            LET found == findById(battlefield, ids[i])
            IN  IF found = <<>> THEN <<>> ELSE <<found[1]>>])

enumerateBlockerActions(state) ==
    IF state.combat.isNull THEN <<PassAction>>
    ELSE LET defender == getDefendingPlayer(state)
             activePlayer == getActivePlayer(state)
             attackerPerms == permsOfIds(state.combat.attackers, activePlayer.battlefield)
             potentialBlockers ==
                 SelectSeq(defender.battlefield,
                           LAMBDA p : "creature" \in p.card.types /\ ~p.tapped)
             assignments == enumerateBlockAssignments(attackerPerms, potentialBlockers)
         IN  [k \in 1..Len(assignments) |-> DeclareBlockersAction(assignments[k])]

\* the phases that resolve by themselves offer no action
enumerateLegalActions_noPass(state) ==
    CASE state.phase \in {"main_precombat", "main_postcombat"} ->
            enumerateMainPhaseActions(state)
      [] state.phase = "declare_attackers" -> enumerateAttackerActions(state)
      [] state.phase = "declare_blockers" -> enumerateBlockerActions(state)
      [] OTHER -> <<>>

enumerateLegalActions(state) ==
    CASE state.phase \in {"main_precombat", "main_postcombat"} ->
            enumerateMainPhaseActions(state)
      [] state.phase = "declare_attackers" -> enumerateAttackerActions(state)
      [] state.phase = "declare_blockers" -> enumerateBlockerActions(state)
      [] OTHER -> <<PassAction>>

(***************************************************************************)
(* game-actions: state transitions                                         *)
(***************************************************************************)
updatePlayer(state, player, playerState) ==
    [state EXCEPT !.players[player] = playerState]

\* the turn number grows with every change of the active player
advanceTurn_turnPerPlayer(state) ==
    LET nextPlayer == opponent(state.activePlayer)
        untapped == [state.players[nextPlayer] EXCEPT
                        !.battlefield = [k \in 1..Len(@) |->
                            [@[k] EXCEPT !.tapped = FALSE, !.summoningSick = FALSE,
                                         !.damageMarked = 0]]]
        cleared == [state.players[opponent(nextPlayer)] EXCEPT
                        !.battlefield = [k \in 1..Len(@) |->
                            [@[k] EXCEPT !.damageMarked = 0]]]
    IN  [state EXCEPT
            !.activePlayer = nextPlayer,
            !.players = [i \in {0, 1} |-> IF i = nextPlayer THEN untapped ELSE cleared],
            !.turn = state.turn + 1,
            !.phase = "main_precombat",
            !.combat = NoCombat]

\* the permanents of both players are untapped and lose summoning sickness
advanceTurn_untapsAll(state) ==
    LET nextPlayer == opponent(state.activePlayer)
        nextTurn == IF nextPlayer = 0 THEN state.turn + 1 ELSE state.turn
        untapped(i) == [state.players[i] EXCEPT
                          !.battlefield = [k \in 1..Len(@) |->
                              [@[k] EXCEPT !.tapped = FALSE, !.summoningSick = FALSE,
                                           !.damageMarked = 0]]]
    IN  [state EXCEPT
            !.activePlayer = nextPlayer,
            !.players = [i \in {0, 1} |-> untapped(i)],
            !.turn = nextTurn,
            !.phase = "main_precombat",
            !.combat = NoCombat]

advanceTurn(state) ==
    LET nextPlayer == opponent(state.activePlayer)
        nextTurn == IF nextPlayer = 0 THEN state.turn + 1 ELSE state.turn
        otherPlayer == opponent(nextPlayer)
        untapped == [state.players[nextPlayer] EXCEPT
                        !.battlefield = [k \in 1..Len(@) |->
                            [@[k] EXCEPT !.tapped = FALSE, !.summoningSick = FALSE,
                                         !.damageMarked = 0]]]
        cleared == [state.players[otherPlayer] EXCEPT
                        !.battlefield = [k \in 1..Len(@) |->
                            [@[k] EXCEPT !.damageMarked = 0]]]
    IN  [state EXCEPT
            !.activePlayer = nextPlayer,
            !.players = [i \in {0, 1} |-> IF i = nextPlayer THEN untapped ELSE cleared],
            !.turn = nextTurn,
            !.phase = "main_precombat",
            !.combat = NoCombat]

\* the blockers of an attacker are listed from the last to the first
buildBlockerPermMap_reversed(blockerIds, defender) ==
    [e \in 1..Len(blockerIds) |->
        [key |-> blockerIds[e].key,
         val |-> LET perms == permsOfIds(blockerIds[e].val, defender.battlefield)
                 IN  [k \in 1..Len(perms) |-> perms[Len(perms) + 1 - k]]]]

buildBlockerPermMap(blockerIds, defender) ==
    [e \in 1..Len(blockerIds) |->
        [key |-> blockerIds[e].key,
         val |-> permsOfIds(blockerIds[e].val, defender.battlefield)]]

\* the new permanents are put in front of the battlefield
applyCast_prepended(state, action) ==
    LET player == getActivePlayer(state)
        indicesToCast == Range(action.cardIndices)
        castAt == SelectSeq([i \in 1..Len(player.hand) |-> i - 1],
                            LAMBDA i : i \in indicesToCast)
        keptAt == SelectSeq([i \in 1..Len(player.hand) |-> i - 1],
                            LAMBDA i : i \notin indicesToCast)
        newHand == [k \in 1..Len(keptAt) |-> player.hand[keptAt[k] + 1]]
        newPerms == [k \in 1..Len(castAt) |->
                        createPermanent(player.hand[castAt[k] + 1],
                                        state.nextPermanentId + k - 1)]
    IN  updatePlayer(
            [state EXCEPT !.nextPermanentId = state.nextPermanentId + Len(castAt),
                          !.phase = "declare_attackers"],
            state.activePlayer,
            [player EXCEPT !.hand = newHand, !.battlefield = newPerms \o player.battlefield])

applyCast(state, action) ==
    LET player == getActivePlayer(state)
        indicesToCast == Range(action.cardIndices)
        castAt == SelectSeq([i \in 1..Len(player.hand) |-> i - 1],
                            LAMBDA i : i \in indicesToCast)
        keptAt == SelectSeq([i \in 1..Len(player.hand) |-> i - 1],
                            LAMBDA i : i \notin indicesToCast)
        newHand == [k \in 1..Len(keptAt) |-> player.hand[keptAt[k] + 1]]
        newPerms == [k \in 1..Len(castAt) |->
                        createPermanent(player.hand[castAt[k] + 1],
                                        state.nextPermanentId + k - 1)]
        newBattlefield == player.battlefield \o newPerms
    IN  updatePlayer(
            [state EXCEPT !.nextPermanentId = state.nextPermanentId + Len(castAt),
                          !.phase = "declare_attackers"],
            state.activePlayer,
            [player EXCEPT !.hand = newHand, !.battlefield = newBattlefield])

\* every attacker is tapped, vigilance or not
tapIfAttacking_ignoresVigilance(perm, attackerIds) ==
    IF perm.id \in Range(attackerIds) THEN [perm EXCEPT !.tapped = TRUE] ELSE perm

\* a declared attacker is also marked as no longer summoning-sick
tapIfAttacking_clearsSickness(perm, attackerIds) ==
    IF perm.id \in Range(attackerIds)
    THEN IF hasKeyword(perm, "vigilance") THEN [perm EXCEPT !.summoningSick = FALSE]
         ELSE [perm EXCEPT !.tapped = TRUE, !.summoningSick = FALSE]
    ELSE perm

\* the callback of player.battlefield.map in applyDeclareAttackers
tapIfAttacking(perm, attackerIds) ==
    IF perm.id \in Range(attackerIds)
    THEN IF hasKeyword(perm, "vigilance") THEN perm
         ELSE [perm EXCEPT !.tapped = TRUE]
    ELSE perm

applyDeclareAttackers(state, action) ==
    LET player == getActivePlayer(state)
        newBattlefield ==
            [k \in 1..Len(player.battlefield) |->
                tapIfAttacking(player.battlefield[k], action.attackerIds)]
        combat == [isNull |-> FALSE, attackers |-> action.attackerIds, blockers |-> <<>>]
    IN  IF Len(action.attackerIds) = 0
        THEN advanceTurn(updatePlayer([state EXCEPT !.combat = NoCombat],
                                      state.activePlayer,
                                      [player EXCEPT !.battlefield = newBattlefield]))
        ELSE updatePlayer([state EXCEPT !.phase = "declare_blockers", !.combat = combat],
                          state.activePlayer,
                          [player EXCEPT !.battlefield = newBattlefield])

applyDeclareBlockers(state, action) ==
    IF state.combat.isNull THEN state
    ELSE LET combat == [state.combat EXCEPT !.blockers = action.assignment]
             activePlayer == getActivePlayer(state)
             attackerPerms == permsOfIds(combat.attackers, activePlayer.battlefield)
             defender == getDefendingPlayer(state)
             blockerMap == buildBlockerPermMap(combat.blockers, defender)
             needsFirstStrike == hasFirstStrikers(attackerPerms, blockerMap)
         IN  [state EXCEPT
                !.phase = IF needsFirstStrike THEN "first_strike_damage"
                          ELSE "combat_damage",
                !.combat = combat]

\* the life changes are applied, the destroyed permanents stay
applyCombatResult_lifeOnly(state, result) ==
    [state EXCEPT !.players =
        [i \in {0, 1} |-> [state.players[i] EXCEPT !.life = @ + result.lifeDelta[i]]]]

\* the destroyed permanents leave the battlefield, their cards go nowhere
applyCombatResult_noGraveyard(state, result) ==
    [state EXCEPT !.players =
        [i \in {0, 1} |->
            [state.players[i] EXCEPT
                !.life = @ + result.lifeDelta[i],
                !.battlefield = SelectSeq(@, LAMBDA p : p.id \notin Range(result.destroyed))]]]

\* Apply life changes; remove destroyed permanents, move to graveyard.
applyCombatResult(state, result) ==
    LET destroyedSet == Range(result.destroyed)
        newPlayer(i) ==
            LET player == state.players[i]
                destroyed == SelectSeq(player.battlefield,
                                       LAMBDA p : p.id \in destroyedSet)
                surviving == SelectSeq(player.battlefield,
                                       LAMBDA p : p.id \notin destroyedSet)
            IN  [player EXCEPT
                    !.life = player.life + result.lifeDelta[i],
                    !.battlefield = surviving,
                    !.graveyard = @ \o [k \in 1..Len(destroyed) |-> destroyed[k].card]]
    IN  [state EXCEPT !.players = [i \in {0, 1} |-> newPlayer(i)]]

resolveCombatStep(state, isFirstStrike) ==
    IF state.combat.isNull THEN state
    ELSE applyCombatResult(state,
            resolveCombatDamage(
                permsOfIds(state.combat.attackers, getActivePlayer(state).battlefield),
                buildBlockerPermMap(state.combat.blockers, getDefendingPlayer(state)),
                state.activePlayer, isFirstStrike))

\* combat damage is followed by main_postcombat of the same turn
passFrom_throughPostcombat(state, resolved) ==
    CASE state.phase = "main_precombat" ->
            [state EXCEPT !.phase = "declare_attackers"]
      [] state.phase = "first_strike_damage" ->
            [resolved EXCEPT !.phase = "combat_damage"]
      [] state.phase = "combat_damage" ->
            [resolved EXCEPT !.phase = "main_postcombat", !.combat = NoCombat]
      [] state.phase = "declare_blockers" -> state
      [] state.phase = "main_postcombat" -> advanceTurn(state)
      [] state.phase = "cleanup" -> advanceTurn(state)
      [] OTHER -> state

\* the switch of applyPass; resolved is resolveCombatStep(state, isFirstStrike) of
\* the two damage phases
passFrom(state, resolved) ==
    CASE state.phase = "main_precombat" ->
            [state EXCEPT !.phase = "declare_attackers"]
      [] state.phase = "first_strike_damage" ->
            [resolved EXCEPT !.phase = "combat_damage"]
      [] state.phase = "combat_damage" ->
            advanceTurn([resolved EXCEPT !.combat = NoCombat])
      [] state.phase = "declare_blockers" -> state
      [] state.phase = "main_postcombat" -> advanceTurn(state)
      [] state.phase = "cleanup" -> advanceTurn(state)
      [] OTHER -> state

applyPass(state) ==
    passFrom(state, resolveCombatStep(state, state.phase = "first_strike_damage"))

applyAction(state, action) ==
    CASE action.type = "cast" -> applyCast(state, action)
      [] action.type = "declare_attackers" -> applyDeclareAttackers(state, action)
      [] action.type = "declare_blockers" -> applyDeclareBlockers(state, action)
      [] action.type = "pass" -> applyPass(state)

(***************************************************************************)
(* game-actions: terminal state checks                                     *)
(***************************************************************************)
\* GameResult: "none" is null (game not over)
checkGameOver(state) ==
    LET p0Dead == state.players[0].life <= 0
        p1Dead == state.players[1].life <= 0
    IN  IF p0Dead /\ p1Dead THEN [outcome |-> "draw", winner |-> -1]
        ELSE IF p0Dead THEN [outcome |-> "win", winner |-> 1]
        ELSE IF p1Dead THEN [outcome |-> "win", winner |-> 0]
        ELSE [outcome |-> "none", winner |-> -1]

\* the hash is looked up but never recorded
checkAndRecordStalemate_notRecorded(state) ==
    [stalemate |-> hashState(state) \in state.stateHistory, state |-> state]

checkAndRecordStalemate(state) ==
    LET hash == hashState(state)
    IN  IF hash \in state.stateHistory
        THEN [stalemate |-> TRUE, state |-> state]
        ELSE [stalemate |-> FALSE,
              state |-> [state EXCEPT !.stateHistory = @ \cup {hash}]]

(***************************************************************************)
(* The cards of the model.                                                 *)
(***************************************************************************)
Knight == Creature("Knight", 20, 1, <<"first_strike">>)
Giant  == Creature("Giant", 20, 1, <<>>)
Raider == Creature("Raider", 20, 1, <<"haste">>)
Wall   == Creature("Wall", 0, 3, <<"defender">>)
Dragon == Creature("Dragon", 20, 20, <<"flying">>)
\* a creature with a line of text the oracle parser could not classify
Mystic == [name |-> "Mystic", types |-> {"creature"}, pt |-> <<1, 1>>,
           abilities |-> <<Keyword("flash"), UnresolvedAbility>>]

SearchCards == {Knight, Giant, Raider, Wall, Dragon, Mystic}

SearchDecks == {<<c>> : c \in SearchCards}

(***************************************************************************)
(* minimax-search: simulateMatchup and minimax as a stack machine.         *)
(*                                                                         *)
(* pc = "idle"   : no call of simulateMatchup is running                   *)
(* pc = "visit"  : minimax was called on node (state, depth, alpha, beta)  *)
(* pc = "return" : a minimax call returned retval to the frame on top of   *)
(*                 stack (to simulateMatchup when the stack is empty)      *)
(* A frame holds the locals of a minimax call that is waiting for a child. *)
(***************************************************************************)
VARIABLES pc, deck0, deck1, maxDepth, node, retval, stack, transpositionTable,
          stats, result, nextId, callsLeft, depthChoices, deckChoices,
          event, capReached, calls

\* resolveCombatDamage called on its own: the arguments and what it returned
VARIABLES combatCall, combatResult

searchVars == <<pc, deck0, deck1, maxDepth, node, retval, stack, transpositionTable,
                stats, result, nextId, callsLeft, depthChoices, deckChoices,
                event, capReached, calls>>

\* A game played by applyAction on actions of enumerateLegalActions: game is
\* the GameState; the others record the play without influencing it: the state
\* the last action was applied to (before), that action (lastAction), the
\* number of actions applied (steps), whether all of them were an empty cast
\* or an empty attack (idlePlay), the ids of the permanents that left a
\* battlefield (retired) and the permanents that left it in the first-strike
\* step of the current combat (firstStrikeDead), the damage that step dealt to
\* each permanent, the damageToPermament of its resolveCombatDamage
\* (firstStrikeDamage), and the state createInitialState returned (opening)
VARIABLES game, before, lastAction, steps, idlePlay, retired, firstStrikeDead,
          firstStrikeDamage, opening

\* enumerateBlockAssignments and hashState called on their own: the arguments
\* and what was returned
VARIABLES blockCall, blockResult, hashCall, hashResult

\* runRoundRobin called on its own: the arguments and the standings returned
VARIABLES roundRobinCall, standings

\* parseOracleText called on its own: the text and the abilities returned
VARIABLES parseCall, parseResult

\* The round lifecycle on the database: the tables rounds, submissions and
\* matchups (the id of a row is its position), the call of resolveRound that
\* is waiting for its evaluator (resolving), and the last call that returned,
\* with the tables as they were when it was made (lastCall); lifecycleSteps
\* counts the steps taken
VARIABLES rounds, submissions, matchups, resolving, lastCall, lifecycleSteps

combatVars == <<combatCall, combatResult>>

roundRobinVars == <<roundRobinCall, standings>>

parseVars == <<parseCall, parseResult>>

lifecycleVars == <<rounds, submissions, matchups, resolving, lastCall, lifecycleSteps>>

\* the variables of the functions modelled further down
otherVars == <<roundRobinVars, parseVars, lifecycleVars>>

blockVars == <<blockCall, blockResult>>

hashVars == <<hashCall, hashResult>>

gameVars == <<game, before, lastAction, steps, idlePlay, retired, firstStrikeDead,
              firstStrikeDamage, opening>>

vars == <<searchVars, combatVars, gameVars, blockVars, hashVars, otherVars>>

\* what a step of the search leaves alone
outsideSearch == <<combatVars, gameVars, blockVars, hashVars, otherVars>>

\* what a call of resolveCombatDamage on its own leaves alone
outsideCombat == <<searchVars, gameVars, blockVars, hashVars, otherVars>>

\* what an action of a game leaves alone
outsideGame == <<searchVars, combatVars, blockVars, hashVars, otherVars>>

\* what a call of enumerateBlockAssignments on its own leaves alone
outsideBlocks == <<searchVars, combatVars, gameVars, hashVars, otherVars>>

\* what a call of hashState on its own leaves alone
outsideHash == <<searchVars, combatVars, gameVars, blockVars, otherVars>>

\* what a call of runRoundRobin on its own leaves alone
outsideRoundRobin == <<searchVars, combatVars, gameVars, blockVars, hashVars, parseVars,
                       lifecycleVars>>

\* what a call of parseOracleText on its own leaves alone
outsideParse == <<searchVars, combatVars, gameVars, blockVars, hashVars, roundRobinVars,
                  lifecycleVars>>

\* what a call of the round lifecycle leaves alone
outsideLifecycle == <<searchVars, combatVars, gameVars, blockVars, hashVars,
                      roundRobinVars, parseVars>>

DEFAULT_MAX_DEPTH == 200

\* Number.NEGATIVE_INFINITY / Number.POSITIVE_INFINITY: values are -1, 0 or 1
NEGATIVE_INFINITY == -2
POSITIVE_INFINITY == 2

zeroStats == [nodesExplored |-> 0, maxDepthReached |-> 0, terminatedByDepthLimit |-> FALSE]

noNode == [state |-> createInitialState(<<>>, <<>>), depth |-> 0,
           alpha |-> NEGATIVE_INFINITY, beta |-> POSITIVE_INFINITY]

\* reason is "" in a result that has no reason
noResult == [outcome |-> "none", reason |-> "", stats |-> zeroStats]

noEvent == [kind |-> "none", state |-> noNode.state, depth |-> 0, value |-> 0]

\* the cards of deck1 come before those of deck0
unresolvedCards_deck1First(d0, d1) == SelectSeq(d1 \o d0, hasUnresolvedAbilities)

\* allCards.filter(hasUnresolvedAbilities)
unresolvedCards(d0, d1) == SelectSeq(d0 \o d1, hasUnresolvedAbilities)

\* Array.prototype.join on strings
RECURSIVE join(_, _)
join(strings, separator) ==
    IF strings = <<>> THEN ""
    ELSE IF Len(strings) = 1 THEN strings[1]
    ELSE strings[1] \o separator \o join(Tail(strings), separator)

\* `cards with unresolved abilities: ${cards.map((c) => c.name).join(", ")}`
unresolvedReason(cards) ==
    "cards with unresolved abilities: "
       \o join([k \in 1..Len(cards) |-> cards[k].name], ", ")

\* the table of the previous call is kept
searchLocals_sharedTable(d0, d1, previous) ==
    [state |-> createInitialState(d0, d1), stats |-> zeroStats, transpositionTable |-> previous]

\* the locals simulateMatchup creates before it calls minimax; previous is the
\* table a previous call left behind
searchLocals(d0, d1, previous) ==
    [state |-> createInitialState(d0, d1), stats |-> zeroStats, transpositionTable |-> <<>>]

\* const decisionMaker = ...; const isMaximizing = decisionMaker === 0
isMaximizing(effectiveState) ==
    LET decisionMaker ==
            IF effectiveState.phase = "declare_blockers"
            THEN (IF effectiveState.activePlayer = 0 THEN 1 ELSE 0)
            ELSE effectiveState.activePlayer
    IN  decisionMaker = 0

isAutoResolve(phase) == phase \in {"first_strike_damage", "combat_damage", "cleanup"}

\* the cap is tested one level too late
atDepthLimit_late(depth, limit) == depth > limit

\* if (depth >= maxDepth)
atDepthLimit(depth, limit) == depth >= limit

outcomeOf(value) ==
    IF value > 0 THEN "player0_wins" ELSE IF value < 0 THEN "player1_wins" ELSE "draw"

(***************************************************************************)
(* simulateMatchup, preflight: some card has an unresolved ability.        *)
(***************************************************************************)
SimulateUnresolved(d0, d1, md) ==
    /\ pc = "idle"
    /\ callsLeft > 0
    /\ unresolvedCards(d0, d1) # <<>>
    /\ deck0' = d0
    /\ deck1' = d1
    /\ maxDepth' = md
    /\ nextId' = 0
    /\ result' = [outcome |-> "unresolved",
                  reason |-> unresolvedReason(unresolvedCards(d0, d1)),
                  stats |-> zeroStats]
    /\ callsLeft' = callsLeft - 1
    /\ calls' = Append(calls, [deck0 |-> d0, deck1 |-> d1, maxDepth |-> md,
                               result |-> result'])
    /\ event' = noEvent
    /\ capReached' = FALSE
    /\ UNCHANGED <<pc, node, retval, stack, transpositionTable, stats, depthChoices,
                   deckChoices>>
    /\ UNCHANGED outsideSearch

(***************************************************************************)
(* simulateMatchup up to its call of minimax(state, 0, maxDepth, ...).     *)
(***************************************************************************)
SimulateStart(d0, d1, md) ==
    /\ pc = "idle"
    /\ callsLeft > 0
    /\ unresolvedCards(d0, d1) = <<>>
    /\ deck0' = d0
    /\ deck1' = d1
    /\ maxDepth' = md
    /\ nextId' = 0
    /\ LET locals == searchLocals(d0, d1, transpositionTable)
       IN  /\ node' = [state |-> locals.state, depth |-> 0,
                       alpha |-> NEGATIVE_INFINITY, beta |-> POSITIVE_INFINITY]
           /\ stats' = locals.stats
           /\ transpositionTable' = locals.transpositionTable
    /\ stack' = <<>>
    /\ retval' = 0
    /\ result' = noResult
    /\ pc' = "visit"
    /\ event' = noEvent
    /\ capReached' = FALSE
    /\ UNCHANGED <<callsLeft, depthChoices, deckChoices, calls>>
    /\ UNCHANGED outsideSearch

(***************************************************************************)
(* minimax, from its entry to its first return or recursive call.          *)
(* kind names the branch taken:                                            *)
(*   "game_over"   checkGameOver(state) !== null                           *)
(*   "depth_limit" depth >= maxDepth                                       *)
(*   "stalemate"   checkAndRecordStalemate(state).stalemate                *)
(*   "cached"      the transposition table holds the hash                  *)
(*   "no_actions"  enumerateLegalActions returned no action                *)
(*   "auto"        an auto-resolve phase: recurse on the pass action       *)
(*   "branch"      the loop over the actions starts                        *)
(***************************************************************************)
\* the depth limit checked before the life totals
terminalCheck_depthFirst(gameResult, depth, limit) ==
    IF atDepthLimit(depth, limit) THEN "depth_limit"
    ELSE IF gameResult.outcome # "none" THEN "game_over"
    ELSE "none"

\* The terminal checks in the order minimax makes them: life totals first,
\* then the depth limit.
terminalCheck(gameResult, depth, limit) ==
    IF gameResult.outcome # "none" THEN "game_over"
    ELSE IF atDepthLimit(depth, limit) THEN "depth_limit"
    ELSE "none"

\* the flag is left as it was
markDepthLimit_notSet(st) == st

\* stats.terminatedByDepthLimit = true
markDepthLimit(st) == [st EXCEPT !.terminatedByDepthLimit = TRUE]

\* stats.nodesExplored++; if (depth > stats.maxDepthReached) ...
countNode(st, depth) ==
    [st EXCEPT !.nodesExplored = @ + 1,
               !.maxDepthReached = IF depth > @ THEN depth ELSE @]

leaf(kind, value, st, state) ==
    [kind |-> kind, value |-> value, stats |-> st, effectiveState |-> state,
     actions |-> <<>>]

\* minimax below the stalemate check: the table lookup and the enumeration
minimaxExpand(state, effectiveState, st, table) ==
    IF state.phase = "main_precombat" /\ MapHas(table, hashState(effectiveState))
    THEN leaf("cached", MapGet(table, hashState(effectiveState)), st, state)
    ELSE IF Len(enumerateLegalActions(effectiveState)) = 0
    THEN leaf("no_actions", 0, st, state)
    ELSE [kind |-> IF isAutoResolve(effectiveState.phase) THEN "auto" ELSE "branch",
          value |-> IF isMaximizing(effectiveState)
                    THEN NEGATIVE_INFINITY ELSE POSITIVE_INFINITY,
          stats |-> st,
          effectiveState |-> effectiveState,
          actions |-> IF isAutoResolve(effectiveState.phase)
                      THEN <<PassAction>> ELSE enumerateLegalActions(effectiveState)]

minimaxEnter(nd, limit, st, table) ==
    LET state == nd.state
        gameResult == checkGameOver(state)
        terminal == terminalCheck(gameResult, nd.depth, limit)
    IN  IF terminal = "game_over"
        THEN leaf("game_over",
                  IF gameResult.outcome = "draw" THEN 0
                  ELSE IF gameResult.winner = 0 THEN 1 ELSE -1,
                  countNode(st, nd.depth), state)
        ELSE IF terminal = "depth_limit"
        THEN leaf("depth_limit", 0, markDepthLimit(countNode(st, nd.depth)), state)
        ELSE IF state.phase = "main_precombat" /\ checkAndRecordStalemate(state).stalemate
        THEN leaf("stalemate", 0, countNode(st, nd.depth), state)
        ELSE minimaxExpand(state,
                           IF state.phase = "main_precombat"
                           THEN checkAndRecordStalemate(state).state ELSE state,
                           countNode(st, nd.depth), table)

\* the recursive call minimax(applyAction(effectiveState, action), depth + 1, ...)
childNode(effectiveState, action, depth, alpha, beta) ==
    [state |-> applyAction(effectiveState, action), depth |-> depth + 1,
     alpha |-> alpha, beta |-> beta]

\* r is minimaxEnter(node, maxDepth, stats, transpositionTable)
VisitWith(r) ==
    /\ stats' = r.stats
    /\ event' = [kind |-> r.kind, state |-> node.state, depth |-> node.depth,
                 value |-> r.value]
    /\ capReached' =
         (capReached \/ (/\ node.state.players[0].life > 0
                         /\ node.state.players[1].life > 0
                         /\ node.depth = maxDepth))
    /\ IF r.kind \in {"auto", "branch"}
       THEN /\ stack' = Append(stack,
                     [state |-> r.effectiveState,
                      depth |-> node.depth,
                      alpha |-> node.alpha,
                      beta |-> node.beta,
                      value |-> r.value,
                      actions |-> r.actions,
                      index |-> 1,
                      auto |-> (r.kind = "auto")])
            /\ node' = childNode(r.effectiveState, r.actions[1], node.depth,
                                 node.alpha, node.beta)
            /\ pc' = "visit"
            /\ UNCHANGED retval
       ELSE /\ retval' = r.value
            /\ pc' = "return"
            /\ UNCHANGED <<stack, node>>

Visit ==
    /\ pc = "visit"
    /\ VisitWith(minimaxEnter(node, maxDepth, stats, transpositionTable))
    /\ UNCHANGED <<deck0, deck1, maxDepth, transpositionTable, result, nextId,
                   callsLeft, depthChoices, deckChoices, calls>>
    /\ UNCHANGED outsideSearch

(***************************************************************************)
(* minimax, from the return of a child to its next recursive call or its   *)
(* own return.  frame holds the caller's locals, childValue the value the  *)
(* child returned.                                                         *)
(***************************************************************************)
minimaxResume(frame, childValue) ==
    IF frame.auto
    THEN [done |-> TRUE, frame |-> frame, value |-> childValue, cache |-> FALSE]
    ELSE LET maximizing == isMaximizing(frame.state)
             value == IF maximizing THEN Max(frame.value, childValue)
                      ELSE Min(frame.value, childValue)
             alpha == IF maximizing THEN Max(frame.alpha, value) ELSE frame.alpha
             beta == IF maximizing THEN frame.beta ELSE Min(frame.beta, value)
             frame1 == [frame EXCEPT !.value = value, !.alpha = alpha, !.beta = beta,
                                     !.index = @ + 1]
         IN  IF beta <= alpha \/ frame.index = Len(frame.actions)
             THEN [done |-> TRUE, frame |-> frame1, value |-> value,
                   cache |-> (frame.state.phase = "main_precombat")]
             ELSE [done |-> FALSE, frame |-> frame1, value |-> value, cache |-> FALSE]

\* frame is the top of the stack, r is minimaxResume(frame, retval)
ReturnWith(frame, r) ==
    /\ event' = [kind |-> IF r.done THEN "leave" ELSE "next",
                 state |-> frame.state, depth |-> frame.depth, value |-> r.value]
    /\ IF r.done
       THEN /\ stack' = SubSeq(stack, 1, Len(stack) - 1)
            /\ retval' = r.value
            /\ transpositionTable' =
                 IF r.cache
                 THEN MapSet(transpositionTable, hashState(frame.state), r.value)
                 ELSE transpositionTable
            /\ pc' = "return"
            /\ UNCHANGED node
       ELSE /\ stack' = [stack EXCEPT ![Len(stack)] = r.frame]
            /\ node' = childNode(r.frame.state, r.frame.actions[r.frame.index],
                                 r.frame.depth, r.frame.alpha, r.frame.beta)
            /\ pc' = "visit"
            /\ UNCHANGED <<retval, transpositionTable>>

Return ==
    /\ pc = "return"
    /\ stack # <<>>
    /\ ReturnWith(stack[Len(stack)], minimaxResume(stack[Len(stack)], retval))
    /\ UNCHANGED <<deck0, deck1, maxDepth, stats, result, nextId, callsLeft,
                   depthChoices, deckChoices, capReached, calls>>
    /\ UNCHANGED outsideSearch

(***************************************************************************)
(* simulateMatchup after minimax returned: value -> outcome.               *)
(***************************************************************************)
Finish ==
    /\ pc = "return"
    /\ stack = <<>>
    /\ result' = [outcome |-> outcomeOf(retval), reason |-> "", stats |-> stats]
    /\ pc' = "idle"
    /\ callsLeft' = callsLeft - 1
    /\ calls' = Append(calls, [deck0 |-> deck0, deck1 |-> deck1, maxDepth |-> maxDepth,
                               result |-> result'])
    /\ event' = [kind |-> "finish", state |-> node.state, depth |-> 0, value |-> retval]
    /\ UNCHANGED <<deck0, deck1, maxDepth, node, retval, stack, transpositionTable,
                   stats, nextId, depthChoices, deckChoices, capReached>>
    /\ UNCHANGED outsideSearch

(***************************************************************************)
(* The same search taken SearchStride steps at a time: Advance is at most  *)
(* SearchStride consecutive steps Visit or Return, up to the return of the *)
(* outermost call of minimax.  search holds the variables these steps      *)
(* change.                                                                 *)
(***************************************************************************)
SearchStride == 64

\* r is minimaxEnter(search.node, maxDepth, search.stats, search.transpositionTable)
visited(search, limit, r) ==
    [pc |-> IF r.kind \in {"auto", "branch"} THEN "visit" ELSE "return",
     node |-> IF r.kind \in {"auto", "branch"}
              THEN childNode(r.effectiveState, r.actions[1], search.node.depth,
                             search.node.alpha, search.node.beta)
              ELSE search.node,
     retval |-> IF r.kind \in {"auto", "branch"} THEN search.retval ELSE r.value,
     stack |-> IF r.kind \in {"auto", "branch"}
               THEN Append(search.stack,
                       [state |-> r.effectiveState,
                        depth |-> search.node.depth,
                        alpha |-> search.node.alpha,
                        beta |-> search.node.beta,
                        value |-> r.value,
                        actions |-> r.actions,
                        index |-> 1,
                        auto |-> (r.kind = "auto")])
               ELSE search.stack,
     transpositionTable |-> search.transpositionTable,
     stats |-> r.stats,
     event |-> [kind |-> r.kind, state |-> search.node.state,
                depth |-> search.node.depth, value |-> r.value],
     capReached |-> (search.capReached \/ (/\ search.node.state.players[0].life > 0
                                            /\ search.node.state.players[1].life > 0
                                            /\ search.node.depth = limit))]

\* frame is the top of search.stack, r is minimaxResume(frame, search.retval)
returned(search, frame, r) ==
    [pc |-> IF r.done THEN "return" ELSE "visit",
     node |-> IF r.done THEN search.node
              ELSE childNode(r.frame.state, r.frame.actions[r.frame.index],
                             r.frame.depth, r.frame.alpha, r.frame.beta),
     retval |-> IF r.done THEN r.value ELSE search.retval,
     stack |-> IF r.done THEN SubSeq(search.stack, 1, Len(search.stack) - 1)
               ELSE [search.stack EXCEPT ![Len(search.stack)] = r.frame],
     transpositionTable |->
         IF r.done /\ r.cache
         THEN MapSet(search.transpositionTable, hashState(frame.state), r.value)
         ELSE search.transpositionTable,
     stats |-> search.stats,
     event |-> [kind |-> IF r.done THEN "leave" ELSE "next",
                state |-> frame.state, depth |-> frame.depth, value |-> r.value],
     capReached |-> search.capReached]

\* one step Visit or Return
searchStep(search, limit) ==
    IF search.pc = "visit"
    THEN visited(search, limit,
                 minimaxEnter(search.node, limit, search.stats,
                              search.transpositionTable))
    ELSE returned(search, search.stack[Len(search.stack)],
                  minimaxResume(search.stack[Len(search.stack)], search.retval))

RECURSIVE searchSteps(_, _, _)
\* at most n steps, none once the outermost call has returned
searchSteps(search, limit, n) ==
    IF n = 0 \/ (search.pc = "return" /\ search.stack = <<>>)
    THEN search
    ELSE searchSteps(searchStep(search, limit), limit, n - 1)

\* after is searchSteps of the variables, SearchStride steps on
AdvanceTo(after) ==
    /\ pc' = after.pc
    /\ node' = after.node
    /\ retval' = after.retval
    /\ stack' = after.stack
    /\ transpositionTable' = after.transpositionTable
    /\ stats' = after.stats
    /\ event' = after.event
    /\ capReached' = after.capReached

Advance ==
    /\ pc \in {"visit", "return"}
    /\ ~(pc = "return" /\ stack = <<>>)
    /\ AdvanceTo(searchSteps([pc |-> pc, node |-> node, retval |-> retval,
                              stack |-> stack,
                              transpositionTable |-> transpositionTable,
                              stats |-> stats, event |-> event,
                              capReached |-> capReached],
                             maxDepth, SearchStride))
    /\ UNCHANGED <<deck0, deck1, maxDepth, result, nextId, callsLeft, depthChoices,
                   deckChoices, calls>>
    /\ UNCHANGED outsideSearch

InitSearchVars(n, depths, decks) ==
    /\ pc = "idle"
    /\ deck0 = <<>>
    /\ deck1 = <<>>
    /\ maxDepth = 0
    /\ node = noNode
    /\ retval = 0
    /\ stack = <<>>
    /\ transpositionTable = <<>>
    /\ stats = zeroStats
    /\ result = noResult
    /\ nextId = 0
    /\ callsLeft = n
    /\ depthChoices = depths
    /\ deckChoices = decks
    /\ event = noEvent
    /\ capReached = FALSE
    /\ calls = <<>>

(***************************************************************************)
(* A game: applyAction applied to the actions enumerateLegalActions offers, *)
(* from createInitialState on, for MaxPlayerTurns player turns.            *)
(***************************************************************************)
noAction == [type |-> "none", cardIndices |-> <<>>, attackerIds |-> <<>>,
             assignment |-> <<>>]

\* the ids of the permanents on the two battlefields
idsOnBattlefield(state) ==
    {state.players[0].battlefield[k].id : k \in 1..Len(state.players[0].battlefield)}
      \cup
    {state.players[1].battlefield[k].id : k \in 1..Len(state.players[1].battlefield)}

InitGameVars(state) ==
    /\ game = state
    /\ before = state
    /\ lastAction = noAction
    /\ steps = 0
    /\ idlePlay = TRUE
    /\ retired = {}
    /\ firstStrikeDead = {}
    /\ firstStrikeDamage = <<>>
    /\ opening = state

\* no game is played
NoGame == InitGameVars(createInitialState(<<>>, <<>>))

noBlockCall == [attackers |-> <<>>, potentialBlockers |-> <<>>]

noBlockResult == [called |-> FALSE, assignments |-> <<>>, actions |-> <<>>]

noHashCall == [first |-> createInitialState(<<>>, <<>>),
               second |-> createInitialState(<<>>, <<>>)]

noHashResult == [called |-> FALSE, first |-> <<>>, second |-> <<>>]

noRoundRobinCall == [decks |-> <<>>, maxDepth |-> 0]

noStandings == [returned |-> FALSE, matchups |-> <<>>, scores |-> <<>>]

NoRoundRobin ==
    /\ roundRobinCall = noRoundRobinCall
    /\ standings = noStandings

noParseCall == [text |-> <<>>]

noParseResult == [returned |-> FALSE, abilities |-> <<>>]

NoParse ==
    /\ parseCall = noParseCall
    /\ parseResult = noParseResult

\* no call of resolveRound is in progress; roundsAtCall and matchupsAtCall are
\* the tables as the call in progress found them
notResolving == [active |-> FALSE, roundId |-> 0, submissions |-> <<>>, i |-> 0, j |-> 0,
                 matchups |-> <<>>, unresolvedCount |-> 0,
                 roundsAtCall |-> <<>>, matchupsAtCall |-> <<>>]

noLifecycleCall == [op |-> "none", roundId |-> 0, error |-> "", returned |-> FALSE,
                    rounds |-> <<>>, matchups |-> <<>>, result |-> notResolving]

\* an empty database
NoLifecycle ==
    /\ rounds = <<>>
    /\ submissions = <<>>
    /\ matchups = <<>>
    /\ resolving = notResolving
    /\ lastCall = noLifecycleCall
    /\ lifecycleSteps = 0

\* none of the functions modelled further down is called
NoOtherCalls == NoRoundRobin /\ NoParse /\ NoLifecycle

\* neither function is called on its own
NoCalls ==
    /\ blockCall = noBlockCall
    /\ blockResult = noBlockResult
    /\ hashCall = noHashCall
    /\ hashResult = noHashResult
    /\ NoOtherCalls

\* the actions of one type that enumerateLegalActions offers in state
offered(state, type) ==
    {a \in Range(enumerateLegalActions(state)) : a.type = type}

\* applyAction(game, action), recorded
GameStep(action) ==
    /\ 2 * (game.turn - 1) + game.activePlayer + 1 <= MaxPlayerTurns
    /\ game' = applyAction(game, action)
    /\ before' = game
    /\ lastAction' = action
    /\ steps' = steps + 1
    /\ idlePlay' = (idlePlay /\ action \in {CastAction(<<>>), DeclareAttackersAction(<<>>)})
    /\ retired' = retired \cup (idsOnBattlefield(game) \ idsOnBattlefield(game'))
    /\ firstStrikeDead' =
         IF game.phase = "first_strike_damage"
         THEN {p \in Range(game.players[0].battlefield \o game.players[1].battlefield) :
                  p.id \notin idsOnBattlefield(game')}
         ELSE IF action.type = "declare_attackers" THEN {}
         ELSE firstStrikeDead
    /\ firstStrikeDamage' =
         IF game.phase = "first_strike_damage" /\ ~game.combat.isNull
         THEN resolveCombatDamage(
                 permsOfIds(game.combat.attackers, getActivePlayer(game).battlefield),
                 buildBlockerPermMap(game.combat.blockers, getDefendingPlayer(game)),
                 game.activePlayer, TRUE).damage
         ELSE IF action.type = "declare_attackers" THEN <<>>
         ELSE firstStrikeDamage
    /\ opening' = opening
    /\ UNCHANGED outsideGame

Cast == \E action \in offered(game, "cast") : GameStep(action)

DeclareAttackers == \E action \in offered(game, "declare_attackers") : GameStep(action)

DeclareBlockers == \E action \in offered(game, "declare_blockers") : GameStep(action)

Pass == \E action \in offered(game, "pass") : GameStep(action)

(***************************************************************************)
(* resolveCombatDamage called on its own, on the attackers and blocker map *)
(* of one damage step.  The permanents are those of a declared combat:     *)
(* attackers with ids 0 .. a-1, blockers with the ids after them, every    *)
(* blocker under exactly one attacker, the blocker map keyed by the        *)
(* blocked attackers in attack order.                                      *)
(***************************************************************************)
Bear   == Creature("Bear", 2, 2, <<>>)
Cobra  == Creature("Cobra", 1, 1, <<"deathtouch">>)
Angel  == Creature("Angel", 4, 4, <<"lifelink", "trample">>)
Zealot == Creature("Zealot", 2, 2, <<"first_strike", "lifelink">>)
Lancer == Creature("Lancer", 2, 3, <<"double_strike">>)
Hydra  == Creature("Hydra", 3, 3, <<"trample", "deathtouch", "indestructible">>)
\* a variable toughness is normalised to 0
Ogre   == Creature("Ogre", 3, 0, <<>>)

CombatCards == {Bear, Cobra, Angel, Zealot, Lancer, Hydra, Ogre, Wall}

\* the sequences of cards of length n
CardSeqs(n) == [1..n -> CombatCards]

\* blockers[j] blocks attackers[blocks[j]]
blockerMapOf(attackers, blockers, blocks) ==
    LET blocked == SelectSeq(attackers,
                       LAMBDA a : \E j \in 1..Len(blockers) :
                                      attackers[blocks[j]].id = a.id)
    IN  [e \in 1..Len(blocked) |->
            [key |-> blocked[e].id,
             val |-> SelectSeq(blockers,
                        LAMBDA b : \E j \in 1..Len(blockers) :
                            /\ blockers[j].id = b.id
                            /\ attackers[blocks[j]].id = blocked[e].id)]]

\* the call on attackers with the cards ac and blockers with the cards bc
combatCallOf(ac, bc, blocks, ap, fs) ==
    [attackers |-> [i \in 1..Len(ac) |-> createPermanent(ac[i], i - 1)],
     blockerMap |-> blockerMapOf(
                        [i \in 1..Len(ac) |-> createPermanent(ac[i], i - 1)],
                        [j \in 1..Len(bc) |-> createPermanent(bc[j], Len(ac) + j - 1)],
                        blocks),
     activePlayer |-> ap,
     isFirstStrike |-> fs]

noCombatCall == [attackers |-> <<>>, blockerMap |-> <<>>, activePlayer |-> 0,
                 isFirstStrike |-> FALSE]

noCombatResult == [called |-> FALSE, destroyed |-> <<>>,
                   lifeDelta |-> [i \in {0, 1} |-> 0],
                   damage |-> <<>>, assignments |-> <<>>, lifeGains |-> <<>>]

combatResultOf(r) ==
    [called |-> TRUE, destroyed |-> r.destroyed, lifeDelta |-> r.lifeDelta,
     damage |-> r.damage, assignments |-> r.assignments, lifeGains |-> r.lifeGains]

ResolveDamage ==
    /\ ~combatResult.called
    /\ combatResult' = combatResultOf(
            resolveCombatDamage(combatCall.attackers, combatCall.blockerMap,
                                combatCall.activePlayer, combatCall.isFirstStrike))
    /\ UNCHANGED combatCall
    /\ UNCHANGED outsideCombat

InitCombat ==
    /\ \E a \in 1..MaxCombatants : \E b \in 0..(MaxCombatants - a) :
          \E ac \in CardSeqs(a), bc \in CardSeqs(b), blocks \in [1..b -> 1..a],
             ap \in {0, 1}, fs \in BOOLEAN :
                combatCall = combatCallOf(ac, bc, blocks, ap, fs)
    /\ combatResult = noCombatResult
    /\ InitSearchVars(0, {}, {})
    /\ NoGame
    /\ NoCalls

SpecCombat == InitCombat /\ [][ResolveDamage]_vars

(***************************************************************************)
(* One call of simulateMatchup.                                            *)
(***************************************************************************)
InitSearch ==
    /\ InitSearchVars(1, (0..MaxSearchDepth) \cup {DEFAULT_MAX_DEPTH}, SearchDecks)
    /\ combatCall = noCombatCall
    /\ combatResult = noCombatResult
    /\ NoGame
    /\ NoCalls

UnresolvedCall ==
    \E d0 \in deckChoices, d1 \in deckChoices, md \in depthChoices :
        SimulateUnresolved(d0, d1, md)

StartCall ==
    \E d0 \in deckChoices, d1 \in deckChoices, md \in depthChoices :
        SimulateStart(d0, d1, md)

NextSearch == UnresolvedCall \/ StartCall \/ Visit \/ Return \/ Finish

SpecSearch == InitSearch /\ [][NextSearch]_vars

(***************************************************************************)
(* Several calls of simulateMatchup one after the other, in one process.   *)
(***************************************************************************)
RepeatDecks == {<<Knight>>, <<Giant>>, <<Mystic>>}

InitRepeat ==
    /\ InitSearchVars(MaxCalls, {DEFAULT_MAX_DEPTH}, RepeatDecks)
    /\ combatCall = noCombatCall
    /\ combatResult = noCombatResult
    /\ NoGame
    /\ NoCalls

SpecRepeat == InitRepeat /\ [][NextSearch]_vars

(***************************************************************************)
(* simulateMatchup as an operator: the steps Visit and Return of the       *)
(* search, run from the first call of minimax to its return.               *)
(***************************************************************************)
RECURSIVE searchRun(_, _)
\* the steps of the search, SearchStride at a time, until minimax returned
searchRun(search, limit) ==
    IF search.pc = "return" /\ search.stack = <<>>
    THEN search
    ELSE searchRun(searchSteps(search, limit, SearchStride), limit)

\* locals is searchLocals(d0, d1, <<>>): the search at the first call of minimax
searchStart(locals) ==
    [pc |-> "visit",
     node |-> [state |-> locals.state, depth |-> 0,
               alpha |-> NEGATIVE_INFINITY, beta |-> POSITIVE_INFINITY],
     retval |-> 0,
     stack |-> <<>>,
     transpositionTable |-> locals.transpositionTable,
     stats |-> locals.stats,
     event |-> noEvent,
     capReached |-> FALSE]

\* search is the search after minimax returned
searchResult(search) ==
    [outcome |-> outcomeOf(search.retval), reason |-> "", stats |-> search.stats]

\* the result of simulateMatchup(d0, d1, md), its stats included
simulateMatchup(d0, d1, md) ==
    IF unresolvedCards(d0, d1) # <<>>
    THEN [outcome |-> "unresolved",
          reason |-> unresolvedReason(unresolvedCards(d0, d1)),
          stats |-> zeroStats]
    ELSE searchResult(searchRun(searchStart(searchLocals(d0, d1, <<>>)), md))

(***************************************************************************)
(* runRoundRobin(decks, maxDepth).  scores is indexed from 0 as in the     *)
(* code; decks[i] of the code is decks[i + 1] here.                        *)
(***************************************************************************)
MaxDecks == 3

\* scores[index] = (scores[index] ?? 0) + points
addScore(scores, index, points) == [scores EXCEPT ![index] = @ + points]

\* a draw scores for player 0 only
applyScore_drawToFirst(scores, p0Index, p1Index, matchupResult) ==
    IF matchupResult.outcome = "player0_wins" THEN addScore(scores, p0Index, 3)
    ELSE IF matchupResult.outcome = "player1_wins" THEN addScore(scores, p1Index, 3)
    ELSE IF matchupResult.outcome = "draw" THEN addScore(scores, p0Index, 1)
    ELSE scores

applyScore(scores, p0Index, p1Index, matchupResult) ==
    IF matchupResult.outcome = "player0_wins" THEN addScore(scores, p0Index, 3)
    ELSE IF matchupResult.outcome = "player1_wins" THEN addScore(scores, p1Index, 3)
    ELSE IF matchupResult.outcome = "draw"
         THEN addScore(addScore(scores, p0Index, 1), p1Index, 1)
    ELSE scores

\* matchups.push({player0Index, player1Index, result, stats}); applyScore(...)
played(standing, p0Index, p1Index, g) ==
    [matchups |-> Append(standing.matchups,
                         [player0Index |-> p0Index, player1Index |-> p1Index,
                          result |-> g]),
     scores |-> applyScore(standing.scores, p0Index, p1Index, g)]

\* the body of the inner loop: game 1 with i as player 0, game 2 with j
bothGames(standing, decks, md, i, j) ==
    played(played(standing, i, j, simulateMatchup(decks[i + 1], decks[j + 1], md)),
           j, i, simulateMatchup(decks[j + 1], decks[i + 1], md))

RECURSIVE roundRobinFrom(_, _, _, _, _)
\* for (i ...) for (j = i + 1 ...), from the pair (i, j) on
roundRobinFrom(standing, decks, md, i, j) ==
    IF i >= Len(decks) THEN standing
    ELSE IF j >= Len(decks) THEN roundRobinFrom(standing, decks, md, i + 1, i + 2)
    ELSE roundRobinFrom(bothGames(standing, decks, md, i, j), decks, md, i, j + 1)

runRoundRobin(decks, md) ==
    roundRobinFrom([matchups |-> <<>>, scores |-> [k \in 0..(Len(decks) - 1) |-> 0]],
                   decks, md, 0, 1)

standingsOf(r) == [returned |-> TRUE, matchups |-> r.matchups, scores |-> r.scores]

RunRoundRobin ==
    /\ ~standings.returned
    /\ standings' = standingsOf(runRoundRobin(roundRobinCall.decks,
                                              roundRobinCall.maxDepth))
    /\ UNCHANGED roundRobinCall
    /\ UNCHANGED outsideRoundRobin

\* decks that win early, draw, or cannot be simulated
TournamentDecks == {<<Raider>>, <<Giant>>, <<Wall>>, <<Mystic>>}

TournamentDepths == {MaxSearchDepth - 8, MaxSearchDepth}

InitRoundRobin ==
    /\ \E n \in 0..MaxDecks : \E decks \in [1..n -> TournamentDecks],
                                  md \in TournamentDepths :
          roundRobinCall = [decks |-> decks, maxDepth |-> md]
    /\ standings = noStandings
    /\ NoParse
    /\ NoLifecycle
    /\ InitSearchVars(0, {}, {})
    /\ combatCall = noCombatCall
    /\ combatResult = noCombatResult
    /\ NoGame
    /\ blockCall = noBlockCall
    /\ blockResult = noBlockResult
    /\ hashCall = noHashCall
    /\ hashResult = noHashResult

SpecRoundRobin == InitRoundRobin /\ [][RunRoundRobin]_vars

(***************************************************************************)
(* parseOracleText.  A text is a sequence of pieces: a newline, a space, a *)
(* comma, or a run of text that holds none of the three at its ends.  The  *)
(* regular expressions of the rules are evaluated on the pieces: a piece   *)
(* below matches a rule by itself, and the two patterns that start at      *)
(* "{T}" also match from a tap piece to a later piece that holds their     *)
(* ending.  The qualifier captured by the protection rule is left out.     *)
(***************************************************************************)
MaxTextLen == 3

NewLine == "\n"
Space == " "
Comma == ","

FlyingText == "Flying"
FirstStrikeText == "first strike"
ConstructorText == "constructor"
ReminderText == "(reminder)"
WardText == "Ward {2}"
ProtectionText == "Protection from red"
EtbDamageText == "When Imp enters the battlefield, it deals 2 damage to any target."
EtbLifeGainText == "When Elf enters the battlefield, you gain 3 life."
EtbCreateTokenText ==
    "When Captain enters the battlefield, create two 1/1 white Soldier creature tokens."
TapDamageText == "{T}: Pinger deals 2 damage to any target."
TapLifeGainText == "{T}: You gain 3 life."
StaticPtText == "Enchanted creature gets +2/+2."
DrawText == "Draw a card."

TextPieces == {NewLine, Space, Comma, FlyingText, FirstStrikeText, ConstructorText,
               ReminderText, WardText, ProtectionText, EtbDamageText,
               EtbLifeGainText, EtbCreateTokenText, TapDamageText, TapLifeGainText,
               StaticPtText, DrawText}

\* String.prototype.toLowerCase on a piece
toLowerCase(piece) ==
    CASE piece = FlyingText -> "flying"
      [] piece = WardText -> "ward {2}"
      [] piece = ProtectionText -> "protection from red"
      [] piece = EtbDamageText ->
            "when imp enters the battlefield, it deals 2 damage to any target."
      [] piece = EtbLifeGainText -> "when elf enters the battlefield, you gain 3 life."
      [] piece = EtbCreateTokenText ->
            "when captain enters the battlefield, create two 1/1 white soldier creature tokens."
      [] piece = TapDamageText -> "{t}: pinger deals 2 damage to any target."
      [] piece = TapLifeGainText -> "{t}: you gain 3 life."
      [] piece = StaticPtText -> "enchanted creature gets +2/+2."
      [] piece = DrawText -> "draw a card."
      [] OTHER -> piece

KEYWORD_MAP ==
    [key \in {"flying", "first strike", "double strike", "trample", "deathtouch",
              "lifelink", "reach", "menace", "defender", "vigilance",
              "indestructible", "haste", "hexproof", "flash"} |->
        CASE key = "first strike" -> "first_strike"
          [] key = "double strike" -> "double_strike"
          [] OTHER -> key]

\* the lower-case names every object literal inherits from Object.prototype
InheritedKeys == {"constructor", "__proto__"}

\* KEYWORD_MAP[part]: an own key, an inherited member (an object, so truthy),
\* or undefined
keywordLookup(part) ==
    IF part \in DOMAIN KEYWORD_MAP THEN KEYWORD_MAP[part]
    ELSE IF part \in InheritedKeys THEN "Object.prototype." \o part
    ELSE "undefined"

RECURSIVE trimStart(_)
trimStart(pieces) ==
    IF pieces # <<>> /\ pieces[1] \in {Space, NewLine}
    THEN trimStart(Tail(pieces))
    ELSE pieces

RECURSIVE trimEnd(_)
trimEnd(pieces) ==
    IF pieces # <<>> /\ pieces[Len(pieces)] \in {Space, NewLine}
    THEN trimEnd(SubSeq(pieces, 1, Len(pieces) - 1))
    ELSE pieces

\* String.prototype.trim
trim(pieces) == trimEnd(trimStart(pieces))

\* piece goes in front of the first part of parts
joinFirst(piece, parts) == <<(<<piece>> \o parts[1])>> \o Tail(parts)

RECURSIVE split(_, _)
\* String.prototype.split(separator)
split(pieces, separator) ==
    IF pieces = <<>> THEN << <<>> >>
    ELSE IF pieces[1] = separator THEN << <<>> >> \o split(Tail(pieces), separator)
    ELSE joinFirst(pieces[1], split(Tail(pieces), separator))

\* a function that returns null returns the empty sequence here
null == <<>>

\* lower.replace(/\([^)]*\)/g, "").trim().split(",").map((p) => p.trim())
keywordParts(line) ==
    LET lower == [k \in 1..Len(line) |-> toLowerCase(line[k])]
        withoutReminder == trim(SelectSeq(lower, LAMBDA piece : piece # ReminderText))
        parts == split(withoutReminder, Comma)
    IN  SelectSeq([k \in 1..Len(parts) |-> join(trim(parts[k]), "")],
                  LAMBDA part : part # "")

\* parts is keywordParts(line), the empty parts skipped
keywordsOf(parts) ==
    IF \E k \in 1..Len(parts) : keywordLookup(parts[k]) = "undefined"
    THEN null
    ELSE [k \in 1..Len(parts) |-> [kind |-> "keyword", keyword |-> keywordLookup(parts[k])]]

tryParseKeywordLine(line) == keywordsOf(keywordParts(line))

has(line, piece) == \E k \in 1..Len(line) : line[k] = piece

\* /\{T\}.*?:.*? .../ from one tap piece to the ending in a later piece
tapThen(line, piece) ==
    \E i \in 1..Len(line) : \E j \in (i + 1)..Len(line) :
        /\ line[i] \in {TapDamageText, TapLifeGainText}
        /\ line[j] = piece

tryParseWard(line) ==
    IF line[1] = WardText
    THEN <<[kind |-> "keyword", keyword |-> "ward", cost |-> "{2}"]>>
    ELSE null

tryParseProtection(line) ==
    IF line[1] = ProtectionText
    THEN <<[kind |-> "keyword", keyword |-> "protection"]>>
    ELSE null

tryParseEtbDamage(line) ==
    IF has(line, EtbDamageText)
    THEN <<[kind |-> "etb_damage", amount |-> 2, target |-> "any_target"]>>
    ELSE null

tryParseEtbLifeGain(line) ==
    IF has(line, EtbLifeGainText)
    THEN <<[kind |-> "etb_life_gain", amount |-> 3]>>
    ELSE null

tryParseEtbCreateToken(line) ==
    IF has(line, EtbCreateTokenText)
    THEN <<[kind |-> "etb_create_token", count |-> 2, power |-> 1, toughness |-> 1,
            keywords |-> <<>>]>>
    ELSE null

tryParseTapDamage(line) ==
    IF has(line, TapDamageText) \/ tapThen(line, EtbDamageText)
    THEN <<[kind |-> "activated_tap_damage", amount |-> 2, target |-> "any_target"]>>
    ELSE null

tryParseTapLifeGain(line) ==
    IF has(line, TapLifeGainText) \/ tapThen(line, EtbLifeGainText)
    THEN <<[kind |-> "activated_tap_life_gain", amount |-> 3]>>
    ELSE null

tryParseStaticPtModifier(line) ==
    IF has(line, StaticPtText)
    THEN <<[kind |-> "static_pt_modifier", power |-> 2, toughness |-> 2,
            target |-> "enchanted_creature"]>>
    ELSE null

makeUnresolved(oracleText, reason) ==
    [kind |-> "unresolved", oracleText |-> oracleText, reason |-> reason]

\* the unresolved ability is added to what a rule recognized
parseLine_unresolvedToo(line) ==
    (IF tryParseKeywordLine(line) # null THEN tryParseKeywordLine(line)
     ELSE IF tryParseWard(line) # null THEN tryParseWard(line)
     ELSE IF tryParseProtection(line) # null THEN tryParseProtection(line)
     ELSE IF tryParseEtbDamage(line) # null THEN tryParseEtbDamage(line)
     ELSE IF tryParseEtbLifeGain(line) # null THEN tryParseEtbLifeGain(line)
     ELSE IF tryParseEtbCreateToken(line) # null THEN tryParseEtbCreateToken(line)
     ELSE IF tryParseTapDamage(line) # null THEN tryParseTapDamage(line)
     ELSE IF tryParseTapLifeGain(line) # null THEN tryParseTapLifeGain(line)
     ELSE IF tryParseStaticPtModifier(line) # null THEN tryParseStaticPtModifier(line)
     ELSE <<>>)
       \o <<makeUnresolved(join(line, ""), "no matching parser rule")>>

\* line is trimmed and not empty
parseLine(line) ==
    IF tryParseKeywordLine(line) # null THEN tryParseKeywordLine(line)
    ELSE IF tryParseWard(line) # null THEN tryParseWard(line)
    ELSE IF tryParseProtection(line) # null THEN tryParseProtection(line)
    ELSE IF tryParseEtbDamage(line) # null THEN tryParseEtbDamage(line)
    ELSE IF tryParseEtbLifeGain(line) # null THEN tryParseEtbLifeGain(line)
    ELSE IF tryParseEtbCreateToken(line) # null THEN tryParseEtbCreateToken(line)
    ELSE IF tryParseTapDamage(line) # null THEN tryParseTapDamage(line)
    ELSE IF tryParseTapLifeGain(line) # null THEN tryParseTapLifeGain(line)
    ELSE IF tryParseStaticPtModifier(line) # null THEN tryParseStaticPtModifier(line)
    ELSE <<makeUnresolved(join(line, ""), "no matching parser rule")>>

RECURSIVE parseLines(_)
\* for (const line of lines) { if (!line) continue; abilities.push(...parseLine(line)) }
parseLines(lines) ==
    IF lines = <<>> THEN <<>>
    ELSE IF lines[1] = <<>> THEN parseLines(Tail(lines))
    ELSE parseLine(lines[1]) \o parseLines(Tail(lines))

\* oracleText.split("\n").map((l) => l.trim())
trimmedLines(text) ==
    [k \in 1..Len(split(text, NewLine)) |-> trim(split(text, NewLine)[k])]

parseOracleText(oracleText) ==
    IF trim(oracleText) = <<>> THEN <<>>
    ELSE parseLines(trimmedLines(oracleText))

ParseOracleText ==
    /\ ~parseResult.returned
    /\ parseResult' = [returned |-> TRUE, abilities |-> parseOracleText(parseCall.text)]
    /\ UNCHANGED parseCall
    /\ UNCHANGED outsideParse

InitParse ==
    /\ \E n \in 0..MaxTextLen : \E text \in [1..n -> TextPieces] :
          parseCall = [text |-> text]
    /\ parseResult = noParseResult
    /\ NoRoundRobin
    /\ NoLifecycle
    /\ InitSearchVars(0, {}, {})
    /\ combatCall = noCombatCall
    /\ combatResult = noCombatResult
    /\ NoGame
    /\ blockCall = noBlockCall
    /\ blockResult = noBlockResult
    /\ hashCall = noHashCall
    /\ hashResult = noHashResult

SpecParse == InitParse /\ [][ParseOracleText]_vars

(***************************************************************************)
(* The round lifecycle.  The database calls are operators on the tables;   *)
(* resolveRound runs from its call to its first await in one step, and     *)
(* from every settling of the evaluator to the next await or to its return *)
(* in one step.  createRound, a submission and a judge command can come in *)
(* between.  One call of resolveRound is in progress at a time.            *)
(***************************************************************************)
MaxLifecycleSteps == 10

\* one more step of the lifecycle is taken
StepTaken ==
    /\ lifecycleSteps < MaxLifecycleSteps
    /\ lifecycleSteps' = lifecycleSteps + 1

Players == {"did:plc:alice", "did:plc:bob", "did:plc:carol"}

\* what the evaluator does: one of its three verdicts, or it throws
Verdicts == {"player0_wins", "player1_wins", "draw", "throws"}

\* SELECT * FROM rounds WHERE phase != 'complete' ORDER BY id DESC LIMIT 1;
\* 0 stands for undefined
getActiveRound(table) ==
    IF \E id \in 1..Len(table) : table[id].phase # "complete"
    THEN CHOOSE id \in 1..Len(table) :
            /\ table[id].phase # "complete"
            /\ \A other \in 1..Len(table) : table[other].phase # "complete" => other <= id
    ELSE 0

updateRoundPhase(table, roundId, phase) == [table EXCEPT ![roundId].phase = phase]

getSubmissionsForRound(table, roundId) ==
    SelectSeq(table, LAMBDA row : row.roundId = roundId)

\* INSERT ... ON CONFLICT(round_id, player_did) DO UPDATE
upsertSubmission(table, roundId, playerDid) ==
    IF \E k \in 1..Len(table) : table[k].roundId = roundId /\ table[k].playerDid = playerDid
    THEN table
    ELSE Append(table, [roundId |-> roundId, playerDid |-> playerDid])

insertMatchup(table, roundId, player0Did, player1Did, outcome, whyUnresolved) ==
    Append(table, [roundId |-> roundId, player0Did |-> player0Did,
                   player1Did |-> player1Did, outcome |-> outcome,
                   unresolvedReason |-> whyUnresolved,
                   judgeResolution |-> "null"])

resolveMatchup(table, matchupId, resolution) ==
    [table EXCEPT ![matchupId].judgeResolution = resolution]

\* the judge resolution is not looked at
getUnresolvedMatchups_ignoresJudge(table, roundId) ==
    SelectSeq(table, LAMBDA row : row.roundId = roundId /\ row.outcome = "unresolved")

\* ... WHERE round_id = ? AND outcome = 'unresolved' AND judge_resolution IS NULL
getUnresolvedMatchups(table, roundId) ==
    SelectSeq(table, LAMBDA row : /\ row.roundId = roundId
                                  /\ row.outcome = "unresolved"
                                  /\ row.judgeResolution = "null")

\* the CLI command start
CreateRound ==
    /\ StepTaken
    /\ rounds' = Append(rounds, [phase |-> "submission"])
    /\ lastCall' = [noLifecycleCall EXCEPT !.op = "createRound"]
    /\ UNCHANGED <<submissions, matchups, resolving>>
    /\ UNCHANGED outsideLifecycle

\* a deck sent to the bot while the active round takes submissions
Submit ==
    \E playerDid \in Players :
        /\ StepTaken
        /\ getActiveRound(rounds) # 0
        /\ rounds[getActiveRound(rounds)].phase = "submission"
        /\ submissions' = upsertSubmission(submissions, getActiveRound(rounds), playerDid)
        /\ lastCall' = [noLifecycleCall EXCEPT !.op = "upsertSubmission"]
        /\ UNCHANGED <<rounds, matchups, resolving>>
        /\ UNCHANGED outsideLifecycle

\* a judge command on a matchup of the table
Judge ==
    \E matchupId \in 1..Len(matchups) :
      \E resolution \in {"player0_wins", "player1_wins", "draw"} :
        /\ StepTaken
        /\ matchups' = resolveMatchup(matchups, matchupId, resolution)
        /\ lastCall' = [noLifecycleCall EXCEPT !.op = "resolveMatchup"]
        /\ UNCHANGED <<rounds, submissions, resolving>>
        /\ UNCHANGED outsideLifecycle

\* the error resolveRound returns before it changes anything, "" for none
resolveRoundError(roundId, subs) ==
    IF roundId = 0 THEN "no active round"
    ELSE IF rounds[roundId].phase # "submission"
         THEN "round is in " \o rounds[roundId].phase \o " phase, not submission"
    ELSE IF Len(subs) < 2 THEN "need at least 2 submissions to resolve"
    ELSE ""

\* what the call records of itself
resolveRoundCalled(roundId, error) ==
    [op |-> "resolveRound", roundId |-> roundId, error |-> error,
     returned |-> (error # ""), rounds |-> rounds, matchups |-> matchups,
     result |-> notResolving]

\* resolveRound from its call to an error or to the first call of the evaluator
ResolveRoundOn(roundId, subs) ==
    /\ lastCall' = resolveRoundCalled(roundId, resolveRoundError(roundId, subs))
    /\ IF resolveRoundError(roundId, subs) # ""
       THEN UNCHANGED <<rounds, resolving>>
       ELSE /\ rounds' = updateRoundPhase(rounds, roundId, "resolution")
            /\ resolving' = [active |-> TRUE, roundId |-> roundId, submissions |-> subs,
                              i |-> 0, j |-> 1, matchups |-> <<>>, unresolvedCount |-> 0,
                              roundsAtCall |-> rounds, matchupsAtCall |-> matchups]
    /\ UNCHANGED <<submissions, matchups>>
    /\ UNCHANGED outsideLifecycle

ResolveRound ==
    /\ StepTaken
    /\ ~resolving.active
    /\ ResolveRoundOn(getActiveRound(rounds),
                      getSubmissionsForRound(submissions, getActiveRound(rounds)))

\* updateRoundPhase(db, round.id, unresolvedCount > 0 ? "judging" : "complete")
phaseAfterResolution_complete(unresolvedCount) == "complete"

phaseAfterResolution(unresolvedCount) ==
    IF unresolvedCount > 0 THEN "judging" ELSE "complete"

\* the outcome recorded for what the evaluator did
outcomeFor(verdict) == IF verdict = "throws" THEN "unresolved" ELSE verdict

\* the locals of resolveRound after the body of the inner loop for (i, j)
afterPair(call, verdict) ==
    [call EXCEPT
        !.matchups = Append(@, [player0Did |-> call.submissions[call.i + 1].playerDid,
                                player1Did |-> call.submissions[call.j + 1].playerDid,
                                outcome |-> outcomeFor(verdict)]),
        !.unresolvedCount = IF verdict = "throws" THEN @ + 1 ELSE @,
        !.i = IF call.j + 1 < Len(call.submissions) THEN @ ELSE @ + 1,
        !.j = IF call.j + 1 < Len(call.submissions) THEN @ + 1 ELSE call.i + 2]

\* for (i ...) for (j = i + 1 ...): no pair is left
loopDone(call) == call.j >= Len(call.submissions)

\* call is afterPair(resolving, verdict)
SettledWith(call, verdict) ==
    /\ matchups' = insertMatchup(matchups, resolving.roundId,
                                 resolving.submissions[resolving.i + 1].playerDid,
                                 resolving.submissions[resolving.j + 1].playerDid,
                                 outcomeFor(verdict),
                                 IF verdict = "throws" THEN "llm evaluation failed"
                                 ELSE "null")
    /\ IF loopDone(call)
       THEN /\ rounds' = updateRoundPhase(rounds, call.roundId,
                                          phaseAfterResolution(call.unresolvedCount))
            /\ resolving' = notResolving
            /\ lastCall' = [op |-> "resolveRound", roundId |-> call.roundId,
                            error |-> "", returned |-> TRUE,
                            rounds |-> call.roundsAtCall,
                            matchups |-> call.matchupsAtCall, result |-> call]
       ELSE /\ resolving' = call
            /\ lastCall' = [noLifecycleCall EXCEPT !.op = "evaluator"]
            /\ UNCHANGED rounds
    /\ UNCHANGED submissions
    /\ UNCHANGED outsideLifecycle

\* the evaluator settles: resolveRound records the pair and goes on to the
\* next call of the evaluator or to its return
EvaluatorSettles ==
    \E verdict \in Verdicts :
        /\ StepTaken
        /\ resolving.active
        /\ SettledWith(afterPair(resolving, verdict), verdict)

\* round is getActiveRound(db), 0 for undefined
checkJudgingCompleteOn(roundId) ==
    /\ roundId # 0
    /\ rounds[roundId].phase = "judging"
    /\ Len(getUnresolvedMatchups(matchups, roundId)) = 0

CheckJudgingComplete ==
    /\ StepTaken
    /\ rounds' = IF checkJudgingCompleteOn(getActiveRound(rounds))
                  THEN updateRoundPhase(rounds, getActiveRound(rounds), "complete")
                  ELSE rounds
    /\ lastCall' = [op |-> "checkJudgingComplete", roundId |-> getActiveRound(rounds),
                    error |-> "", returned |-> checkJudgingCompleteOn(getActiveRound(rounds)),
                    rounds |-> rounds, matchups |-> matchups, result |-> notResolving]
    /\ UNCHANGED <<submissions, matchups, resolving>>
    /\ UNCHANGED outsideLifecycle

InitLifecycle ==
    /\ NoLifecycle
    /\ NoRoundRobin
    /\ NoParse
    /\ InitSearchVars(0, {}, {})
    /\ combatCall = noCombatCall
    /\ combatResult = noCombatResult
    /\ NoGame
    /\ blockCall = noBlockCall
    /\ blockResult = noBlockResult
    /\ hashCall = noHashCall
    /\ hashResult = noHashResult

NextLifecycle ==
    \/ CreateRound
    \/ Submit
    \/ ResolveRound
    \/ EvaluatorSettles
    \/ Judge
    \/ CheckJudgingComplete

SpecLifecycle == InitLifecycle /\ [][NextLifecycle]_vars

(***************************************************************************)
(* simulateMatchup on decks that hold a card with an unresolved ability:   *)
(* the call returns from its preflight check.                              *)
(***************************************************************************)
\* a second card the oracle parser could not classify, its unresolved line first
Seer == [name |-> "Seer", types |-> {"creature"}, pt |-> <<0, 2>>,
         abilities |-> <<UnresolvedAbility, Keyword("vigilance")>>]

PreflightCards == {Mystic, Seer, Giant}

PreflightDecks == UNION {[1..n -> PreflightCards] : n \in 1..MaxDeckSize}

InitPreflight ==
    /\ InitSearchVars(1, {DEFAULT_MAX_DEPTH}, PreflightDecks)
    /\ combatCall = noCombatCall
    /\ combatResult = noCombatResult
    /\ NoGame
    /\ NoCalls

SpecPreflight == InitPreflight /\ [][UnresolvedCall]_vars

(***************************************************************************)
(* simulateMatchup at the default depth on one-creature decks that fight   *)
(* with 2 power: the search runs to its end.                               *)
(***************************************************************************)
Squire == Creature("Squire", 2, 2, <<"first_strike">>)
Ox     == Creature("Ox", 2, 3, <<>>)

DuelDecks == {<<Bear>>}

InitDuel ==
    /\ InitSearchVars(1, {DEFAULT_MAX_DEPTH}, DuelDecks)
    /\ combatCall = noCombatCall
    /\ combatResult = noCombatResult
    /\ NoGame
    /\ NoCalls

NextDuel == StartCall \/ Visit \/ Return \/ Finish

SpecDuel == InitDuel /\ [][NextDuel]_vars

(***************************************************************************)
(* simulateMatchup at the default depth between a 2/2 first striker and a  *)
(* 2/3, the search taken SearchStride steps at a time.                     *)
(***************************************************************************)
RaceDecks == {<<Squire>>, <<Ox>>}

InitRace ==
    /\ InitSearchVars(1, {DEFAULT_MAX_DEPTH}, RaceDecks)
    /\ combatCall = noCombatCall
    /\ combatResult = noCombatResult
    /\ NoGame
    /\ NoCalls

NextRace == StartCall \/ Advance \/ Finish

SpecRace == InitRace /\ [][NextRace]_vars

(***************************************************************************)
(* Games between two-card decks.                                           *)
(***************************************************************************)
Viper  == Creature("Viper", 1, 1, <<"deathtouch", "haste">>)
Troll  == Creature("Troll", 2, 2, <<"indestructible">>)
Spider == Creature("Spider", 1, 3, <<"reach", "vigilance">>)

GameDecks == {<<Viper, Troll>>, <<Zealot, Spider>>}

InitGame ==
    /\ \E d0 \in GameDecks, d1 \in GameDecks : InitGameVars(createInitialState(d0, d1))
    /\ InitSearchVars(0, {}, {})
    /\ combatCall = noCombatCall
    /\ combatResult = noCombatResult
    /\ NoCalls

NextGame == Cast \/ DeclareAttackers \/ DeclareBlockers \/ Pass

SpecGame == InitGame /\ [][NextGame]_vars

(***************************************************************************)
(* Games between one-card decks with a double striker, whose combats have   *)
(* a first-strike step followed by a regular step of the same attacker.    *)
(***************************************************************************)
Duelist == Creature("Duelist", 2, 2, <<"double_strike">>)
Golem   == Creature("Golem", 1, 4, <<>>)

SkirmishDecks == {<<Duelist>>, <<Bear>>, <<Golem>>}

InitSkirmish ==
    /\ \E d0 \in SkirmishDecks, d1 \in SkirmishDecks :
          InitGameVars(createInitialState(d0, d1))
    /\ InitSearchVars(0, {}, {})
    /\ combatCall = noCombatCall
    /\ combatResult = noCombatResult
    /\ NoCalls

SpecSkirmish == InitSkirmish /\ [][NextGame]_vars

(***************************************************************************)
(* Games in which one attacker with more power than its blockers need is    *)
(* blocked by two creatures, cast in either order; one deck holds a card    *)
(* twice.                                                                  *)
(***************************************************************************)
Champion == Creature("Champion", 5, 5, <<"double_strike">>)

MeleeDecks == {<<Champion>>, <<Bear, Troll>>, <<Bear, Bear>>}

InitMelee ==
    /\ \E d0 \in MeleeDecks, d1 \in MeleeDecks : InitGameVars(createInitialState(d0, d1))
    /\ InitSearchVars(0, {}, {})
    /\ combatCall = noCombatCall
    /\ combatResult = noCombatResult
    /\ NoCalls

SpecMelee == InitMelee /\ [][NextGame]_vars

(***************************************************************************)
(* enumerateBlockAssignments called on its own, and enumerateLegalActions  *)
(* in declare_blockers on the state with the same attackers and blockers.  *)
(***************************************************************************)
Bat   == Creature("Bat", 1, 1, <<"flying">>)
Brute == Creature("Brute", 3, 3, <<"menace">>)
Harpy == Creature("Harpy", 2, 1, <<"flying", "menace">>)
\* a permanent that is not a creature
Relic == [name |-> "Relic", types |-> {"artifact"}, pt |-> <<>>, abilities |-> <<>>]

AttackLineups ==
    {<<>>, <<Bat>>, <<Brute>>, <<Harpy>>, <<Bear, Bat>>, <<Brute, Bear>>,
     <<Harpy, Brute>>}

BlockerCards == {Bear, Spider, Bat, Relic}

\* the permanents of the cards, with ids from firstId on, none summoning-sick
permsFrom(cards, tapped, firstId) ==
    [k \in 1..Len(cards) |->
        [createPermanent(cards[k], firstId + k - 1) EXCEPT
            !.tapped = tapped[k], !.summoningSick = FALSE]]

\* the state in declare_blockers in which player 0 attacks with all of
\* attackers and player 1 controls potentialBlockers
blockState(attackers, potentialBlockers) ==
    [createInitialState(<<>>, <<>>) EXCEPT
        !.phase = "declare_blockers",
        !.players[0].battlefield = attackers,
        !.players[1].battlefield = potentialBlockers,
        !.combat = [isNull |-> Len(attackers) = 0,
                    attackers |-> [k \in 1..Len(attackers) |-> attackers[k].id],
                    blockers |-> <<>>],
        !.nextPermanentId = Len(attackers) + Len(potentialBlockers)]

EnumerateBlocks ==
    /\ ~blockResult.called
    /\ blockCall.attackers # <<>> \/ blockCall.potentialBlockers # <<>>
    /\ blockResult' =
          [called |-> TRUE,
           assignments |-> enumerateBlockAssignments(blockCall.attackers,
                                                     blockCall.potentialBlockers),
           actions |-> enumerateLegalActions(blockState(blockCall.attackers,
                                                        blockCall.potentialBlockers))]
    /\ UNCHANGED <<blockCall, outsideBlocks>>

InitBlocks ==
    /\ \E lineup \in AttackLineups : \E n \in 0..MaxBlockers :
          \E cards \in [1..n -> BlockerCards], tapped \in [1..n -> BOOLEAN] :
             blockCall = [attackers |-> permsFrom(lineup, [k \in 1..Len(lineup) |-> FALSE], 0),
                          potentialBlockers |-> permsFrom(cards, tapped, Len(lineup))]
    /\ blockResult = noBlockResult
    /\ hashCall = noHashCall
    /\ hashResult = noHashResult
    /\ NoOtherCalls
    /\ InitSearchVars(0, {}, {})
    /\ combatCall = noCombatCall
    /\ combatResult = noCombatResult
    /\ NoGame

SpecBlocks == InitBlocks /\ [][EnumerateBlocks]_vars

(***************************************************************************)
(* hashState called on two states: the second is the first with one        *)
(* player's battlefield and hand rearranged, with or without other values  *)
(* in the fields outside the key, and with or without one change of a      *)
(* field inside it.                                                        *)
(***************************************************************************)
\* a permanent of a hashed battlefield: its card and flags
BoardEntries ==
    {[card |-> Bear, tapped |-> FALSE, summoningSick |-> FALSE],
     [card |-> Bear, tapped |-> TRUE, summoningSick |-> FALSE],
     [card |-> Spider, tapped |-> FALSE, summoningSick |-> TRUE],
     [card |-> Spider, tapped |-> FALSE, summoningSick |-> FALSE]}

HashHands == {<<>>, <<Bear>>, <<Bear, Spider>>, <<Spider, Bear, Bear>>}

Changes ==
    {"none", "activePlayer", "phase", "life", "tapped", "summoningSick", "card", "hand"}

Orders(n) ==
    {f \in [1..n -> 1..n] : \A i, j \in 1..n : i # j => f[i] # f[j]}

Permuted(seq, f) == [k \in 1..Len(seq) |-> seq[f[k]]]

\* the permanents of the entries, with ids from firstId on
boardOf(entries, firstId) ==
    [k \in 1..Len(entries) |->
        [createPermanent(entries[k].card, firstId + k - 1) EXCEPT
            !.tapped = entries[k].tapped,
            !.summoningSick = entries[k].summoningSick]]

\* player who has the board and the hand, the other player one untapped Bear
\* and a Spider in hand
hashInput(who, entries, hand, firstId) ==
    [createInitialState(<<>>, <<>>) EXCEPT
        !.players[who].battlefield = boardOf(entries, firstId),
        !.players[who].hand = hand,
        !.players[opponent(who)].battlefield =
            boardOf(<<[card |-> Bear, tapped |-> FALSE, summoningSick |-> FALSE]>>,
                    firstId + Len(entries)),
        !.players[opponent(who)].hand = <<Spider>>,
        !.nextPermanentId = firstId + Len(entries) + 1]

\* other values in the fields that are not part of the key
elsewhereOf(state, who) ==
    [state EXCEPT
        !.turn = 5,
        !.players[who].graveyard = <<Bear, Troll>>,
        !.stateHistory = {hashState(state)},
        !.nextPermanentId = @ + 4]

\* one field that is part of the key is changed
changed(state, who, change) ==
    CASE change = "activePlayer" -> [state EXCEPT !.activePlayer = opponent(@)]
      [] change = "phase" -> [state EXCEPT !.phase = "declare_attackers"]
      [] change = "life" -> [state EXCEPT !.players[who].life = @ - 1]
      [] change = "tapped" ->
            [state EXCEPT !.players[opponent(who)].battlefield[1].tapped = TRUE]
      [] change = "summoningSick" ->
            [state EXCEPT !.players[opponent(who)].battlefield[1].summoningSick = TRUE]
      [] change = "card" ->
            [state EXCEPT !.players[opponent(who)].battlefield[1].card = Spider]
      [] change = "hand" ->
            [state EXCEPT !.players[opponent(who)].hand = <<Spider, Spider>>]
      [] OTHER -> state

hashCallOf(who, entries, hand, f, g, elsewhere, change) ==
    [first |-> hashInput(who, entries, hand, 0),
     second |->
        changed(IF elsewhere
                THEN elsewhereOf(hashInput(who, Permuted(entries, f), Permuted(hand, g), 3),
                                 who)
                ELSE hashInput(who, Permuted(entries, f), Permuted(hand, g), 0),
                who, change)]

HashStates ==
    /\ ~hashResult.called
    /\ hashResult' = [called |-> TRUE,
                      first |-> hashState(hashCall.first),
                      second |-> hashState(hashCall.second)]
    /\ UNCHANGED <<hashCall, outsideHash>>

InitHash ==
    /\ \E who \in {0, 1} : \E n \in 0..MaxBoard : \E hand \in HashHands :
          \E entries \in [1..n -> BoardEntries], f \in Orders(n),
             g \in Orders(Len(hand)), elsewhere \in BOOLEAN, change \in Changes :
             hashCall = hashCallOf(who, entries, hand, f, g, elsewhere, change)
    /\ hashResult = noHashResult
    /\ blockCall = noBlockCall
    /\ blockResult = noBlockResult
    /\ NoOtherCalls
    /\ InitSearchVars(0, {}, {})
    /\ combatCall = noCombatCall
    /\ combatResult = noCombatResult
    /\ NoGame

SpecHash == InitHash /\ [][HashStates]_vars

(***************************************************************************)
(* Properties of simulateMatchup and minimax.                              *)
(***************************************************************************)
finished == pc = "idle" /\ result.outcome # "none"

searched == finished /\ result.outcome # "unresolved"

cardHasUnresolved(card) ==
    \E i \in 1..Len(card.abilities) : card.abilities[i].kind = "unresolved"

deckHasUnresolved(deck) == \E i \in 1..Len(deck) : cardHasUnresolved(deck[i])

sameInput(c, d) ==
    c.deck0 = d.deck0 /\ c.deck1 = d.deck1 /\ c.maxDepth = d.maxDepth

SetMax(S) == CHOOSE x \in S : \A y \in S : y <= x

SetMin(S) == CHOOSE x \in S : \A y \in S : x <= y

\* Minimax over the game tree with no pruning and no table: player 0
\* maximizes, player 1 minimizes, the defender chooses the blocks, life <= 0
\* is terminal, a main_precombat position repeated on the path is a draw, a
\* node at depth limit is a draw.
RECURSIVE plainMinimax(_, _, _)
plainMinimax(state, depth, limit) ==
    IF state.players[0].life <= 0 /\ state.players[1].life <= 0 THEN 0
    ELSE IF state.players[1].life <= 0 THEN 1
    ELSE IF state.players[0].life <= 0 THEN -1
    ELSE IF depth >= limit THEN 0
    ELSE IF state.phase = "main_precombat" /\ hashState(state) \in state.stateHistory
    THEN 0
    ELSE LET here == IF state.phase = "main_precombat"
                     THEN [state EXCEPT !.stateHistory = @ \cup {hashState(state)}]
                     ELSE state
             actions == enumerateLegalActions(here)
             values == {plainMinimax(applyAction(here, actions[i]), depth + 1, limit) :
                           i \in 1..Len(actions)}
             chooser == IF here.phase = "declare_blockers"
                        THEN opponent(here.activePlayer) ELSE here.activePlayer
         IN  IF actions = <<>> THEN 0
             ELSE IF isAutoResolve(here.phase)
             THEN plainMinimax(applyAction(here, PassAction), depth + 1, limit)
             ELSE IF chooser = 0 THEN SetMax(values) ELSE SetMin(values)

\* C1: the outcome a search returns is the outcome of the plain minimax of
\* the same decks and maxDepth (no pruning, no transposition table).
C1_OutcomeIsPlainMinimax ==
    searched =>
        result.outcome =
            outcomeOf(plainMinimax(createInitialState(deck0, deck1), 0, maxDepth))

\* C2: a call returns "unresolved" if and only if some card of deck0 or deck1
\* has an ability of kind unresolved, then with all-zero stats; a search only
\* runs on decks without such a card.
C2_UnresolvedIffUnresolvedAbility ==
    /\ \A k \in 1..Len(calls) :
          /\ (calls[k].result.outcome = "unresolved")
                <=> (deckHasUnresolved(calls[k].deck0) \/ deckHasUnresolved(calls[k].deck1))
          /\ (calls[k].result.outcome = "unresolved")
                => /\ calls[k].result.stats.nodesExplored = 0
                   /\ calls[k].result.stats.maxDepthReached = 0
                   /\ calls[k].result.stats.terminatedByDepthLimit = FALSE
    /\ pc # "idle" => ~deckHasUnresolved(deck0) /\ ~deckHasUnresolved(deck1)
    /\ (finished /\ result.outcome = "unresolved") => event = noEvent /\ stack = <<>>

\* an unresolved call whose only unresolved card is in deck1, after a resolved
\* first ability
C2_Witness ==
    /\ finished
    /\ result.outcome = "unresolved"
    /\ result.stats = zeroStats
    /\ ~deckHasUnresolved(deck0)
    /\ \E i \in 1..Len(deck1) :
          cardHasUnresolved(deck1[i]) /\ deck1[i].abilities[1].kind # "unresolved"

\* C3: two calls with the same deck0, deck1 and maxDepth return the same
\* outcome and stats, whatever was simulated in between; every search starts
\* on an empty transposition table and an empty state history.
C3_SameInputSameResult ==
    /\ \A i \in 1..Len(calls) : \A j \in 1..Len(calls) :
          sameInput(calls[i], calls[j]) => calls[i].result = calls[j].result
    /\ (pc = "visit" /\ stack = <<>> /\ event = noEvent)
          => transpositionTable = <<>> /\ node.state.stateHistory = {}

\* a search, another search, and the first search again
C3_Witness ==
    /\ Len(calls) = 3
    /\ sameInput(calls[1], calls[3])
    /\ ~sameInput(calls[1], calls[2])
    /\ calls[1].result.outcome \notin {"unresolved", "none"}
    /\ calls[2].result.outcome \notin {"unresolved", "none"}
    /\ calls[1].result.stats.nodesExplored > 1
    /\ calls[3].result = calls[1].result

\* the branches of minimax up to its first return or recursive call
VisitKinds == {"game_over", "depth_limit", "stalemate", "cached", "no_actions",
               "auto", "branch"}

\* the node minimax was just entered on
entered == event.kind \in VisitKinds

\* the node just entered returned value without a recursive call
returnedAtOnce(value) ==
    /\ pc = "return"
    /\ retval = value
    /\ event.value = value
    /\ Len(stack) = event.depth

alive(state) == state.players[0].life > 0 /\ state.players[1].life > 0

repeated(state) ==
    state.phase = "main_precombat" /\ hashState(state) \in state.stateHistory

\* the hashes of the main_precombat states that are being expanded
pathHashes ==
    {hashState(stack[k].state) :
        k \in {j \in 1..Len(stack) : stack[j].state.phase = "main_precombat"}}

\* the nodes at depth d still to be visited: the node about to be entered and
\* the children not yet started of the expanded node above them
pendingAt(p, st, d) ==
    (IF p = "visit" /\ d = Len(st) THEN 1 ELSE 0)
      + (IF d \in 1..Len(st) THEN Len(st[d].actions) - st[d].index ELSE 0)

\* the search at (p1, st1) has less left to do than at (p2, st2): fewer
\* pending nodes at the first depth where they differ, then a shorter stack,
\* then a node to enter rather than a value to hand back
lessLeft(p1, st1, p2, st2) ==
    \/ \E d \in 0..Len(st2) :
          /\ pendingAt(p1, st1, d) < pendingAt(p2, st2, d)
          /\ \A e \in 0..(d - 1) : pendingAt(p1, st1, e) = pendingAt(p2, st2, e)
    \/ /\ \A e \in 0..Len(st2) : pendingAt(p1, st1, e) = pendingAt(p2, st2, e)
       /\ Len(st1) <= Len(st2)
       /\ (Len(st1) < Len(st2) \/ (p1 = "visit" /\ p2 = "return"))

\* C4: a call ends with one of the four outcomes. The node of a recursive
\* call is one level below its caller, no node at depth maxDepth is expanded,
\* every expanded node walks a finite list of children, a call under way can
\* always take a step, and every step of it leaves strictly less to do (the
\* pending counts per depth 0..maxDepth, compared from the root down, are
\* well-founded).
C4_SearchTerminates ==
    /\ [](/\ pc = "visit" => node.depth = Len(stack) /\ node.depth <= maxDepth
          /\ \A k \in 1..Len(stack) :
                /\ stack[k].depth = k - 1
                /\ stack[k].depth < maxDepth
                /\ stack[k].index \in 1..Len(stack[k].actions)
          /\ pc \in {"idle", "visit", "return"}
          /\ finished => result.outcome \in {"player0_wins", "player1_wins",
                                             "draw", "unresolved"})
    /\ [][/\ (pc # "idle" /\ pc' # "idle") => lessLeft(pc', stack', pc, stack)
          /\ pc = "visit" => (pc' = "visit" /\ Len(stack') = Len(stack) + 1)
                               \/ (pc' = "return" /\ stack' = stack)
          /\ (pc = "return" /\ stack = <<>>) => finished']_vars

\* a search with the cap at the largest depth of the model that went down to
\* the cap and ended
C4_Witness ==
    /\ searched
    /\ maxDepth = MaxSearchDepth
    /\ result.stats.maxDepthReached = maxDepth
    /\ result.stats.nodesExplored > maxDepth

\* C5: the history of a node is the set of hashes of the main_precombat
\* states above it on its path; a main_precombat node whose hash is in its
\* history is valued 0 with no recursive call; any other main_precombat node
\* that is expanded hands its children its history plus its own hash.
C5_RepetitionIsDraw ==
    /\ pc = "visit" => node.state.stateHistory = pathHashes
    /\ event.kind = "stalemate" => repeated(event.state)
    /\ (entered /\ repeated(event.state)) => returnedAtOnce(0)
    /\ (event.kind = "branch" /\ event.state.phase = "main_precombat")
          => /\ ~repeated(event.state)
             /\ stack[Len(stack)].state.stateHistory =
                    event.state.stateHistory \cup {hashState(event.state)}

\* a position came back on its own path, below the cap
C5_Witness ==
    /\ event.kind = "stalemate"
    /\ event.depth < maxDepth
    /\ returnedAtOnce(0)

\* C6 as stated: a search that visited a live node at depth maxDepth returns
\* draw with terminatedByDepthLimit set.
C6_CapMeansDraw ==
    (searched /\ capReached)
        => result.outcome = "draw" /\ result.stats.terminatedByDepthLimit

\* C6: a live node at depth maxDepth is valued 0 with no recursive call and
\* sets terminatedByDepthLimit, and the stats the call returns keep it set.
C6_CapNodeIsDrawAndFlagged ==
    /\ (entered /\ alive(event.state) /\ event.depth = maxDepth)
          => /\ event.kind = "depth_limit"
             /\ returnedAtOnce(0)
             /\ stats.terminatedByDepthLimit
    /\ (pc # "idle" /\ capReached) => stats.terminatedByDepthLimit
    /\ (searched /\ capReached) => result.stats.terminatedByDepthLimit

\* a search that hit the cap and still returns a win
C6_Witness ==
    /\ searched
    /\ capReached
    /\ result.stats.terminatedByDepthLimit
    /\ result.outcome \in {"player0_wins", "player1_wins"}

\* C7: a node with a life total <= 0 returns at once, 0 if both are <= 0,
\* otherwise 1 or -1 for the player still above 0; no expanded node has such
\* a life total; terminatedByDepthLimit is only set by a live node at the cap.
C7_LifeCheckFirst ==
    /\ (entered /\ ~alive(event.state))
          => /\ event.kind = "game_over"
             /\ returnedAtOnce(IF event.state.players[0].life > 0 THEN 1
                               ELSE IF event.state.players[1].life > 0 THEN -1
                               ELSE 0)
    /\ \A k \in 1..Len(stack) : alive(stack[k].state)
    /\ (pc # "idle" \/ searched) => (stats.terminatedByDepthLimit => capReached)

\* a node with a dead player at depth maxDepth, the flag still unset
C7_Witness ==
    /\ event.kind = "game_over"
    /\ event.depth = maxDepth
    /\ ~alive(event.state)
    /\ returnedAtOnce(event.value)
    /\ event.value # 0
    /\ ~stats.terminatedByDepthLimit

(***************************************************************************)
(* Properties of resolveCombatDamage.                                      *)
(***************************************************************************)
RECURSIVE SumAmounts(_)
SumAmounts(log) == IF log = <<>> THEN 0 ELSE log[1].amount + SumAmounts(Tail(log))

idsOf(perms) == {perms[i].id : i \in 1..Len(perms)}

\* the permanents of the step: the attackers and the assigned blockers
involved == combatCall.attackers \o Flat(MapValues(combatCall.blockerMap))

blockersOf(attacker) ==
    IF MapHas(combatCall.blockerMap, attacker.id)
    THEN MapGet(combatCall.blockerMap, attacker.id) ELSE <<>>

\* perm deals damage in the step that was resolved
strikes(perm) ==
    /\ getEffectivePower(perm) > 0
    /\ IF combatCall.isFirstStrike
       THEN hasKeyword(perm, "first_strike") \/ hasKeyword(perm, "double_strike")
       ELSE ~hasKeyword(perm, "first_strike") \/ hasKeyword(perm, "double_strike")

\* the damage the source assigned to the targets
dealt(sourceId, targets) ==
    SumAmounts(SelectSeq(combatResult.assignments,
                         LAMBDA d : d.sourceId = sourceId /\ d.targetId \in targets))

\* the damage the permanent accumulated
accumulated(perm) ==
    IF MapHas(combatResult.damage, perm.id)
    THEN MapGet(combatResult.damage, perm.id).total ELSE 0

\* the life the lifelink of the source added to the player's lifeDelta
gained(sourceId, player) ==
    SumAmounts(SelectSeq(combatResult.lifeGains,
                         LAMBDA g : g.sourceId = sourceId /\ g.player = player))

\* the permanent received an amount > 0 of damage from a deathtouch source
deathtouched(perm) ==
    \E k \in 1..Len(combatResult.assignments) :
        /\ combatResult.assignments[k].targetId = perm.id
        /\ combatResult.assignments[k].amount > 0
        /\ \E i \in 1..Len(involved) :
              /\ involved[i].id = combatResult.assignments[k].sourceId
              /\ hasKeyword(involved[i], "deathtouch")

\* C8: a blocked attacker that deals damage in the step assigns its blockers
\* and the defending player exactly its power in total, the player's part
\* being 0 without trample; what a blocker accumulated from it is what it was
\* assigned.
C8_BlockedAttackerDealsItsPower ==
    combatResult.called =>
        \A i \in 1..Len(combatCall.attackers) :
            (strikes(combatCall.attackers[i]) /\ blockersOf(combatCall.attackers[i]) # <<>>)
                => /\ dealt(combatCall.attackers[i].id,
                            idsOf(blockersOf(combatCall.attackers[i])))
                        + dealt(combatCall.attackers[i].id, {Player})
                      = getEffectivePower(combatCall.attackers[i])
                   /\ hasKeyword(combatCall.attackers[i], "trample")
                        \/ dealt(combatCall.attackers[i].id, {Player}) = 0
                   /\ \A j \in 1..Len(blockersOf(combatCall.attackers[i])) :
                        accumulated(blockersOf(combatCall.attackers[i])[j])
                          = dealt(combatCall.attackers[i].id,
                                  {blockersOf(combatCall.attackers[i])[j].id})

\* a trampler with two blockers: part of its power on each blocker and the
\* rest on the player; and next to it the case without trample, the excess on
\* the last blocker
C8_Witness ==
    /\ combatResult.called
    /\ \E i \in 1..Len(combatCall.attackers) :
          /\ strikes(combatCall.attackers[i])
          /\ Len(blockersOf(combatCall.attackers[i])) = 2
          /\ hasKeyword(combatCall.attackers[i], "trample")
          /\ dealt(combatCall.attackers[i].id, {Player}) > 0
          /\ \A j \in 1..2 :
                dealt(combatCall.attackers[i].id,
                      {blockersOf(combatCall.attackers[i])[j].id}) > 0
          /\ combatResult.lifeDelta[opponent(combatCall.activePlayer)]
                = 0 - dealt(combatCall.attackers[i].id, {Player})

\* C9 as stated: a lifelink attacker that deals damage adds exactly its power
\* to the active player's lifeDelta, blocked or not, with trample or not; a
\* lifelink blocker that deals damage adds exactly its power to the defending
\* player's lifeDelta.
C9_LifelinkGainIsDamageDealt ==
    combatResult.called =>
        /\ \A i \in 1..Len(combatCall.attackers) :
              (strikes(combatCall.attackers[i])
                 /\ hasKeyword(combatCall.attackers[i], "lifelink"))
                  => gained(combatCall.attackers[i].id, combatCall.activePlayer)
                       = getEffectivePower(combatCall.attackers[i])
        /\ \A i \in 1..Len(combatCall.attackers) :
              \A j \in 1..Len(blockersOf(combatCall.attackers[i])) :
                 (strikes(blockersOf(combatCall.attackers[i])[j])
                    /\ hasKeyword(blockersOf(combatCall.attackers[i])[j], "lifelink"))
                     => gained(blockersOf(combatCall.attackers[i])[j].id,
                               opponent(combatCall.activePlayer))
                          = getEffectivePower(blockersOf(combatCall.attackers[i])[j])

\* C10 as stated: a permanent of the step is in destroyed if and only if it
\* has no indestructible and it accumulated damage >= its toughness or got
\* damage > 0 from a deathtouch source; no id is in destroyed twice.
C10_DestroyedIffLethal ==
    combatResult.called =>
        /\ \A i \in 1..Len(involved) :
              (involved[i].id \in Range(combatResult.destroyed))
                 <=> /\ ~hasKeyword(involved[i], "indestructible")
                     /\ \/ accumulated(involved[i]) >= getEffectiveToughness(involved[i])
                        \/ deathtouched(involved[i])
        /\ Range(combatResult.destroyed) \subseteq idsOf(involved)
        /\ \A k \in 1..Len(combatResult.destroyed) :
              \A l \in 1..Len(combatResult.destroyed) :
                 combatResult.destroyed[k] = combatResult.destroyed[l] => k = l

\* the step of the call is one in which a permanent with these keywords deals
\* damage
stepMatches(perm) ==
    IF combatCall.isFirstStrike
    THEN \/ "first_strike" \in getKeywords(perm.card)
         \/ "double_strike" \in getKeywords(perm.card)
    ELSE \/ "first_strike" \notin getKeywords(perm.card)
         \/ "double_strike" \in getKeywords(perm.card)

\* C12: an attacker or blocker deals damage in a step exactly when the step
\* matches its keywords (first-strike step: first_strike or double_strike;
\* regular step: no first_strike, or double_strike), and then it deals its
\* power; otherwise it is the source of no damage at all.
C12_StepMatchesKeywords ==
    combatResult.called
       => \A i \in 1..Len(involved) :
             dealt(involved[i].id, idsOf(involved) \cup {Player})
                = IF stepMatches(involved[i])
                  THEN getEffectivePower(involved[i]) ELSE 0

\* a regular step in which a double striker dealt its power and a creature
\* with first_strike only dealt nothing
C12_Witness ==
    /\ combatResult.called
    /\ ~combatCall.isFirstStrike
    /\ \E i, j \in 1..Len(involved) :
          /\ "double_strike" \in getKeywords(involved[i].card)
          /\ dealt(involved[i].id, idsOf(involved) \cup {Player})
                = getEffectivePower(involved[i])
          /\ getEffectivePower(involved[i]) > 0
          /\ "first_strike" \in getKeywords(involved[j].card)
          /\ "double_strike" \notin getKeywords(involved[j].card)
          /\ getEffectivePower(involved[j]) > 0
          /\ dealt(involved[j].id, idsOf(involved) \cup {Player}) = 0

(***************************************************************************)
(* Properties of a game.                                                   *)
(***************************************************************************)
permsOn(state) == state.players[0].battlefield \o state.players[1].battlefield

\* the last action was the pass that resolves the damage step of phase
resolved(phase) == steps > 0 /\ lastAction.type = "pass" /\ before.phase = phase

\* the attackers and blockers of the combat of state that are on the battlefield
attackersIn(state) ==
    SelectSeq(getActivePlayer(state).battlefield,
              LAMBDA p : p.id \in Range(state.combat.attackers))

blockersIn(state) ==
    SelectSeq(getDefendingPlayer(state).battlefield,
              LAMBDA p : \E e \in 1..Len(state.combat.blockers) :
                            p.id \in Range(state.combat.blockers[e].val))

\* what resolveCombatDamage returns on the combat of the state before
lastDamage ==
    resolveCombatDamage(
        permsOfIds(before.combat.attackers, getActivePlayer(before).battlefield),
        buildBlockerPermMap(before.combat.blockers, getDefendingPlayer(before)),
        before.activePlayer, before.phase = "first_strike_damage")

indestructible(perm) == "indestructible" \in getKeywords(perm.card)

\* the damage entry of perm in the last damage step is lethal by amount or by
\* deathtouch
lethallyHit(perm) ==
    /\ MapHas(lastDamage.damage, perm.id)
    /\ \/ MapGet(lastDamage.damage, perm.id).total >= getEffectiveToughness(perm)
       \/ /\ MapGet(lastDamage.damage, perm.id).fromDeathtouch
          /\ MapGet(lastDamage.damage, perm.id).total > 0

\* C11: no indestructible permanent is in the destroyed list of a damage
\* step, whatever damage it took; an action never takes an indestructible
\* permanent off its battlefield, and no graveyard holds an indestructible
\* card.
C11_IndestructibleStays ==
    /\ (resolved("first_strike_damage") \/ resolved("combat_damage"))
          => \A k \in 1..Len(permsOn(before)) :
                indestructible(permsOn(before)[k])
                   => permsOn(before)[k].id \notin Range(lastDamage.destroyed)
    /\ \A i \in {0, 1} :
          /\ \A k \in 1..Len(before.players[i].battlefield) :
                indestructible(before.players[i].battlefield[k])
                   => \E l \in 1..Len(game.players[i].battlefield) :
                         /\ game.players[i].battlefield[l].id
                               = before.players[i].battlefield[k].id
                         /\ game.players[i].battlefield[l].card
                               = before.players[i].battlefield[k].card
          /\ \A k \in 1..Len(game.players[i].graveyard) :
                "indestructible" \notin getKeywords(game.players[i].graveyard[k])

\* an indestructible permanent took deathtouch damage in the step just
\* resolved and is still on the battlefield
C11_Witness ==
    /\ resolved("combat_damage")
    /\ \E k \in 1..Len(permsOn(before)) :
          /\ indestructible(permsOn(before)[k])
          /\ lethallyHit(permsOn(before)[k])
          /\ MapGet(lastDamage.damage, permsOn(before)[k].id).fromDeathtouch
          /\ permsOn(before)[k].id \in idsOnBattlefield(game)

\* the cards of the permanents of player i that the last damage step destroyed
destroyedCards(i) ==
    LET dead == SelectSeq(before.players[i].battlefield,
                          LAMBDA p : p.id \in Range(lastDamage.destroyed))
    IN  [k \in 1..Len(dead) |-> dead[k].card]

\* C13: the pass out of the first-strike step takes the permanents that step
\* destroyed off the battlefield, appends their cards to their owner's
\* graveyard and applies the step's life changes, and only then is the game in
\* combat_damage; in the regular step no permanent destroyed in the
\* first-strike step is on a battlefield or is the source of damage.
C13_FirstStrikeAppliedBeforeRegular ==
    /\ resolved("first_strike_damage")
          => /\ game.phase = "combat_damage"
             /\ firstStrikeDead
                   = {q \in Range(permsOn(before)) : q.id \in Range(lastDamage.destroyed)}
             /\ \A i \in {0, 1} :
                   /\ game.players[i].life
                         = before.players[i].life + lastDamage.lifeDelta[i]
                   /\ game.players[i].battlefield
                         = SelectSeq(before.players[i].battlefield,
                                     LAMBDA q : q.id \notin Range(lastDamage.destroyed))
                   /\ game.players[i].graveyard
                         = before.players[i].graveyard \o destroyedCards(i)
    /\ game.phase = "combat_damage"
          => \A q \in firstStrikeDead : q.id \notin idsOnBattlefield(game)
    /\ resolved("combat_damage")
          => /\ \A q \in firstStrikeDead :
                   \A k \in 1..Len(lastDamage.assignments) :
                      lastDamage.assignments[k].sourceId # q.id
             /\ \A i \in {0, 1} :
                   game.players[i].life
                      = before.players[i].life + lastDamage.lifeDelta[i]

\* a regular step was resolved after a first-strike step that had destroyed a
\* creature which deals its damage in the regular step
C13_Witness ==
    /\ resolved("combat_damage")
    /\ \E q \in firstStrikeDead :
          /\ getEffectivePower(q) > 0
          /\ "first_strike" \notin getKeywords(q.card)
    /\ lastDamage.assignments # <<>>

\* perm is untapped, a creature, without defender, and not summoning-sick or
\* with haste
ready(perm) ==
    /\ ~perm.tapped
    /\ "creature" \in perm.card.types
    /\ "defender" \notin getKeywords(perm.card)
    /\ (~perm.summoningSick \/ "haste" \in getKeywords(perm.card))

\* C14: canAttack holds of a permanent exactly when it is untapped, a
\* creature, without defender, and not summoning-sick or with haste; so no
\* declare_attackers action that is offered names a summoning-sick creature
\* without haste.
C14_CanAttackIffReady ==
    /\ \A k \in 1..Len(permsOn(game)) :
          canAttack(permsOn(game)[k]) <=> ready(permsOn(game)[k])
    /\ \A action \in offered(game, "declare_attackers") :
          \A k \in 1..Len(permsOn(game)) :
             permsOn(game)[k].id \in Range(action.attackerIds)
                => ready(permsOn(game)[k])

\* the last action declared attackers: none, or at least one
declaredNone ==
    steps > 0 /\ lastAction.type = "declare_attackers" /\ lastAction.attackerIds = <<>>

declaredSome ==
    steps > 0 /\ lastAction.type = "declare_attackers" /\ lastAction.attackerIds # <<>>

\* the permanent of state with this id is tapped
tappedIn(state, id) ==
    \E k \in 1..Len(permsOn(state)) :
       permsOn(state)[k].id = id /\ permsOn(state)[k].tapped

\* after the declaration a declared attacker is tapped exactly if it lacks
\* vigilance, and every other permanent is tapped exactly if it was
tappedAsDeclared ==
    \A k \in 1..Len(permsOn(before)) :
       /\ permsOn(before)[k].id \in idsOnBattlefield(game)
       /\ tappedIn(game, permsOn(before)[k].id)
             = IF permsOn(before)[k].id \in Range(lastAction.attackerIds)
               THEN "vigilance" \notin getKeywords(permsOn(before)[k].card)
               ELSE permsOn(before)[k].tapped

\* C15 (as stated): DeclareAttackers(ids) taps the declared attackers without
\* vigilance, leaves those with vigilance untapped and changes the tapped flag
\* of no permanent outside ids.
C15_OnlyAttackersChange ==
    (declaredNone \/ declaredSome) => tappedAsDeclared

\* C15 (amended): the same for a non-empty ids; with ids empty the turn
\* advances, which untaps the permanents of the player whose turn begins and
\* leaves the tapped flags of the other player's permanents as they were.
C15_OnlyAttackersChangeUnlessEmpty ==
    /\ declaredSome => tappedAsDeclared
    /\ declaredNone
          => /\ game.activePlayer = opponent(before.activePlayer)
             /\ \A k \in 1..Len(getActivePlayer(before).battlefield) :
                   tappedIn(game, getActivePlayer(before).battlefield[k].id)
                      = getActivePlayer(before).battlefield[k].tapped
             /\ \A k \in 1..Len(getDefendingPlayer(before).battlefield) :
                   ~tappedIn(game, getDefendingPlayer(before).battlefield[k].id)

\* attackers with and without vigilance were declared while the defending
\* player had a tapped permanent
C15_Witness ==
    /\ declaredSome
    /\ \E i, j \in 1..Len(getActivePlayer(before).battlefield) :
          /\ getActivePlayer(before).battlefield[i].id \in Range(lastAction.attackerIds)
          /\ getActivePlayer(before).battlefield[j].id \in Range(lastAction.attackerIds)
          /\ hasKeyword(getActivePlayer(before).battlefield[i], "vigilance")
          /\ ~hasKeyword(getActivePlayer(before).battlefield[j], "vigilance")
          /\ ~tappedIn(game, getActivePlayer(before).battlefield[i].id)
          /\ tappedIn(game, getActivePlayer(before).battlefield[j].id)
    /\ \E k \in 1..Len(getDefendingPlayer(before).battlefield) :
          /\ getDefendingPlayer(before).battlefield[k].tapped
          /\ tappedIn(game, getDefendingPlayer(before).battlefield[k].id)

\* C18: the permanents on the two battlefields have pairwise distinct ids,
\* every id is smaller than nextPermanentId, nextPermanentId does not go down
\* with an action, and no permanent on a battlefield has the id of one that
\* left.
C18_IdsDistinctAndFresh ==
    /\ \A k, l \in 1..Len(permsOn(game)) :
          k # l => permsOn(game)[k].id # permsOn(game)[l].id
    /\ \A k \in 1..Len(permsOn(game)) :
          permsOn(game)[k].id < game.nextPermanentId
    /\ game.nextPermanentId >= before.nextPermanentId
    /\ retired \cap idsOnBattlefield(game) = {}

\* cards were cast after a permanent had left the battlefield, beside
\* permanents that were there already
C18_Witness ==
    /\ steps > 0
    /\ lastAction.type = "cast"
    /\ lastAction.cardIndices # <<>>
    /\ retired # {}
    /\ idsOnBattlefield(before) # {}
    /\ game.nextPermanentId > before.nextPermanentId

\* C19: as long as every action was an empty cast or an empty attack, two
\* actions make up one player's turn: the active player alternates 0, 1, 0,
\* 1, ..., each begins in main_precombat, and the turn number goes up by one
\* exactly when the active player becomes player 0.
C19_IdleTurnsAlternate ==
    idlePlay
       => /\ game.activePlayer = (steps \div 2) % 2
          /\ game.turn = 1 + (steps \div 4)
          /\ game.phase = IF steps % 2 = 0 THEN "main_precombat" ELSE "declare_attackers"
          /\ game.combat.isNull
          /\ (steps > 0 /\ lastAction.type = "declare_attackers")
                => /\ game.activePlayer = opponent(before.activePlayer)
                   /\ game.turn = before.turn + (IF game.activePlayer = 0 THEN 1 ELSE 0)
          /\ (steps > 0 /\ lastAction.type = "cast")
                => /\ game.activePlayer = before.activePlayer
                   /\ game.turn = before.turn

\* the second turn of player 1 was reached by idle play
C19_Witness ==
    /\ idlePlay
    /\ steps >= 6
    /\ game.activePlayer = 1
    /\ game.turn = 2
    /\ game.players[1].hand # <<>>

(***************************************************************************)
(* Properties of enumerateBlockAssignments.                                *)
(***************************************************************************)
\* the assignments emitted, and those of the declare_blockers actions offered
emitted ==
    Range(blockResult.assignments)
       \cup {a.assignment : a \in {b \in Range(blockResult.actions) :
                                       b.type = "declare_blockers"}}

\* the permanent of the call with this id
permOfCall(id) ==
    CHOOSE p \in Range(blockCall.attackers \o blockCall.potentialBlockers) : p.id = id

flyer(perm) == "flying" \in getKeywords(perm.card)

\* perm may block a flying attacker
reaches(perm) == {"flying", "reach"} \cap getKeywords(perm.card) # {}

\* C16: in every assignment emitted by enumerateBlockAssignments, and in every
\* declare_blockers action enumerateLegalActions offers, every assigned
\* blocker is an untapped creature among the potential blockers, and every
\* blocker assigned to an attacker with flying has flying or reach.
C16_BlockersAreLegal ==
    blockResult.called
       => \A assignment \in emitted :
             \A e \in 1..Len(assignment) :
                /\ assignment[e].key \in idsOf(blockCall.attackers)
                /\ \A k \in 1..Len(assignment[e].val) :
                      /\ assignment[e].val[k] \in idsOf(blockCall.potentialBlockers)
                      /\ ~permOfCall(assignment[e].val[k]).tapped
                      /\ "creature" \in permOfCall(assignment[e].val[k]).card.types
                      /\ flyer(permOfCall(assignment[e].key))
                            => reaches(permOfCall(assignment[e].val[k]))

\* a flying attacker was blocked in an emitted assignment while the potential
\* blockers held an untapped creature without flying or reach and a tapped or
\* non-creature permanent
C16_Witness ==
    /\ blockResult.called
    /\ \E k \in 1..Len(blockCall.potentialBlockers) :
          /\ ~blockCall.potentialBlockers[k].tapped
          /\ "creature" \in blockCall.potentialBlockers[k].card.types
          /\ ~reaches(blockCall.potentialBlockers[k])
    /\ \E k \in 1..Len(blockCall.potentialBlockers) :
          \/ blockCall.potentialBlockers[k].tapped
          \/ "creature" \notin blockCall.potentialBlockers[k].card.types
    /\ \E assignment \in Range(blockResult.assignments) :
          \E e \in 1..Len(assignment) :
             flyer(permOfCall(assignment[e].key)) /\ assignment[e].val # <<>>

\* C17: in every assignment emitted by enumerateBlockAssignments every
\* attacker with menace has no blocker or at least two.
C17_MenaceNeedsTwo ==
    blockResult.called
       => \A assignment \in Range(blockResult.assignments) :
             \A i \in 1..Len(blockCall.attackers) :
                "menace" \in getKeywords(blockCall.attackers[i].card)
                   => \A e \in 1..Len(assignment) :
                         assignment[e].key = blockCall.attackers[i].id
                            => Len(assignment[e].val) # 1

\* a menace attacker faced at least two creatures that can block it, and the
\* assignments emitted hold one with two blockers on it and one with none
C17_Witness ==
    /\ blockResult.called
    /\ \E i \in 1..Len(blockCall.attackers) :
          /\ "menace" \in getKeywords(blockCall.attackers[i].card)
          /\ Cardinality({k \in 1..Len(blockCall.potentialBlockers) :
                 canBlock(blockCall.potentialBlockers[k], blockCall.attackers[i])}) >= 2
          /\ \E assignment \in Range(blockResult.assignments) :
                \E e \in 1..Len(assignment) :
                   /\ assignment[e].key = blockCall.attackers[i].id
                   /\ Len(assignment[e].val) = 2
          /\ \E assignment \in Range(blockResult.assignments) :
                \A e \in 1..Len(assignment) :
                   assignment[e].key # blockCall.attackers[i].id

(***************************************************************************)
(* Properties of hashState.                                                *)
(***************************************************************************)
\* how often each element occurs in the sequence
occurrences(seq) ==
    [x \in Range(seq) |-> Cardinality({k \in 1..Len(seq) : seq[k] = x})]

boardTriples(player) ==
    [k \in 1..Len(player.battlefield) |->
        <<player.battlefield[k].card.name, player.battlefield[k].tapped,
          player.battlefield[k].summoningSick>>]

handNames(player) == [k \in 1..Len(player.hand) |-> player.hand[k].name]

\* the two states have the same active player, phase and life totals and, for
\* each player, the same multiset of (name, tapped, summoningSick) on the
\* battlefield and of card names in hand
sameKeyFields(s1, s2) ==
    /\ s1.activePlayer = s2.activePlayer
    /\ s1.phase = s2.phase
    /\ \A i \in {0, 1} :
          /\ s1.players[i].life = s2.players[i].life
          /\ occurrences(boardTriples(s1.players[i]))
                = occurrences(boardTriples(s2.players[i]))
          /\ occurrences(handNames(s1.players[i]))
                = occurrences(handNames(s2.players[i]))

\* C20: two states with the same active player, phase, life totals and, per
\* player, the same multisets of battlefield triples and of hand names have
\* the same hashState key, whatever the order of battlefield and hand, the
\* permanent ids, turn, graveyard, stateHistory and nextPermanentId.
C20_SameKeyFieldsSameHash ==
    (hashResult.called /\ sameKeyFields(hashCall.first, hashCall.second))
       => hashResult.first = hashResult.second

\* two states with the same key fields that differ in the order of a
\* battlefield and of a hand, in the ids, the turn, a graveyard, stateHistory
\* and nextPermanentId were hashed
C20_Witness ==
    /\ hashResult.called
    /\ sameKeyFields(hashCall.first, hashCall.second)
    /\ \E i \in {0, 1} :
          /\ boardTriples(hashCall.first.players[i])
                # boardTriples(hashCall.second.players[i])
          /\ handNames(hashCall.first.players[i]) # handNames(hashCall.second.players[i])
          /\ idsOf(hashCall.first.players[i].battlefield)
                # idsOf(hashCall.second.players[i].battlefield)
          /\ hashCall.first.players[i].graveyard # hashCall.second.players[i].graveyard
    /\ hashCall.first.turn # hashCall.second.turn
    /\ hashCall.first.stateHistory # hashCall.second.stateHistory
    /\ hashCall.first.nextPermanentId # hashCall.second.nextPermanentId
    /\ hashResult.first = hashResult.second

(***************************************************************************)
(* Properties of the results of simulateMatchup.                           *)
(***************************************************************************)
\* the names of the cards of the deck that have an unresolved ability, in
\* deck order
RECURSIVE unresolvedNames(_)
unresolvedNames(deck) ==
    IF deck = <<>> THEN <<>>
    ELSE (IF cardHasUnresolved(Head(deck)) THEN <<Head(deck).name>> ELSE <<>>)
            \o unresolvedNames(Tail(deck))

\* the first n names, each followed by ", " except the last
RECURSIVE listed(_, _)
listed(names, n) ==
    IF n = 0 THEN ""
    ELSE IF n = 1 THEN names[1]
    ELSE listed(names, n - 1) \o ", " \o names[n]

\* C25: the reason of an unresolved result is "cards with unresolved
\* abilities: " followed by the names of the cards with an unresolved
\* ability, those of deck0 before those of deck1, each deck in its order,
\* separated by ", ".
C25_ReasonListsUnresolvedCards ==
    (finished /\ result.outcome = "unresolved")
       => result.reason
             = "cards with unresolved abilities: "
                  \o listed(unresolvedNames(deck0) \o unresolvedNames(deck1),
                            Len(unresolvedNames(deck0) \o unresolvedNames(deck1)))

\* an unresolved call in which each deck holds a resolved card and an
\* unresolved one, and the two unresolved cards differ
C25_Witness ==
    /\ finished
    /\ result.outcome = "unresolved"
    /\ Len(deck0) = 2 /\ Len(deck1) = 2
    /\ Len(unresolvedNames(deck0)) = 1 /\ Len(unresolvedNames(deck1)) = 1
    /\ unresolvedNames(deck0) # unresolvedNames(deck1)
    /\ ~cardHasUnresolved(deck0[1])
    /\ ~cardHasUnresolved(deck1[2])

\* the call that is running or was finished last is the default-depth call on
\* these one-card decks
duel(card0, card1) ==
    deck0 = <<card0>> /\ deck1 = <<card1>> /\ maxDepth = DEFAULT_MAX_DEPTH

\* C22: simulateMatchup on a vanilla 2/2 against a vanilla 2/2 at the default
\* depth returns draw; the search never reaches the depth cap and no node in
\* which a life total is 0 or less is valued 0, so the value 0 of the root
\* comes from repeated main_precombat positions.
C22_BearMirrorIsDrawByRepetition ==
    /\ (searched /\ duel(Bear, Bear))
          => /\ result.outcome = "draw"
             /\ ~result.stats.terminatedByDepthLimit
             /\ ~capReached
    /\ (duel(Bear, Bear) /\ entered)
          => /\ event.kind \notin {"depth_limit", "no_actions"}
             /\ event.kind = "game_over" => event.value # 0
             /\ (event.value = 0 /\ event.kind \notin {"auto", "branch", "cached"})
                   => /\ event.kind = "stalemate"
                      /\ alive(event.state)
                      /\ repeated(event.state)

\* the call on the two vanilla 2/2 decks was searched to its end and
\* returned draw
C22_Witness ==
    /\ searched
    /\ duel(Bear, Bear)
    /\ result.outcome = "draw"
    /\ result.stats.nodesExplored > 1
    /\ result.stats.maxDepthReached < DEFAULT_MAX_DEPTH

\* C23: simulateMatchup on a 2/2 with first_strike against a vanilla 2/3 at
\* the default depth returns player1_wins.
C23_ToughnessBeatsFirstStrike ==
    (searched /\ duel(Squire, Ox)) => result.outcome = "player1_wins"

\* the call on the first-strike 2/2 against the 2/3 was searched to its end,
\* below the depth cap
C23_Witness ==
    /\ searched
    /\ duel(Squire, Ox)
    /\ result.outcome = "player1_wins"
    /\ result.stats.nodesExplored > 1
    /\ ~result.stats.terminatedByDepthLimit

(***************************************************************************)
(* Properties of the standings of runRoundRobin                            *)
(***************************************************************************)
\* the positions of the matchups with p0 as player 0 and p1 as player 1
gamesOf(p0, p1) ==
    {k \in 1..Len(standings.matchups) :
        /\ standings.matchups[k].player0Index = p0
        /\ standings.matchups[k].player1Index = p1}

\* the positions of the matchups that deck d won, in either seat
wonBy(d) ==
    {k \in 1..Len(standings.matchups) :
        \/ /\ standings.matchups[k].player0Index = d
           /\ standings.matchups[k].result.outcome = "player0_wins"
        \/ /\ standings.matchups[k].player1Index = d
           /\ standings.matchups[k].result.outcome = "player1_wins"}

\* the positions of the matchups that deck d drew
drawnBy(d) ==
    {k \in 1..Len(standings.matchups) :
        /\ d \in {standings.matchups[k].player0Index, standings.matchups[k].player1Index}
        /\ standings.matchups[k].result.outcome = "draw"}

withOutcome(outcomes) ==
    {k \in 1..Len(standings.matchups) : standings.matchups[k].result.outcome \in outcomes}

RECURSIVE sumScores(_, _)
sumScores(scores, n) == IF n = 0 THEN 0 ELSE scores[n - 1] + sumScores(scores, n - 1)

deckIndices == 0..(Len(roundRobinCall.decks) - 1)

\* C21: runRoundRobin plays every pair of distinct decks exactly once in each
\* seating and nothing else; the matchup recorded for a seating is what
\* simulateMatchup returns for it; the score of a deck is 3 per matchup it won
\* plus 1 per matchup it drew, an unresolved matchup scores nothing, and the
\* scores add up to 3 x decisive + 2 x drawn matchups.
C21_RoundRobinScores ==
    standings.returned =>
        /\ \A i \in deckIndices, j \in deckIndices :
              Cardinality(gamesOf(i, j)) = IF i = j THEN 0 ELSE 1
        /\ Len(standings.matchups) = Len(roundRobinCall.decks) * (Len(roundRobinCall.decks) - 1)
        /\ \A k \in 1..Len(standings.matchups) :
              /\ standings.matchups[k].player0Index \in deckIndices
              /\ standings.matchups[k].player1Index \in deckIndices
              /\ standings.matchups[k].result =
                    simulateMatchup(
                        roundRobinCall.decks[standings.matchups[k].player0Index + 1],
                        roundRobinCall.decks[standings.matchups[k].player1Index + 1],
                        roundRobinCall.maxDepth)
        /\ DOMAIN standings.scores = deckIndices
        /\ \A d \in deckIndices :
              standings.scores[d] = 3 * Cardinality(wonBy(d)) + Cardinality(drawnBy(d))
        /\ sumScores(standings.scores, Len(roundRobinCall.decks))
              = 3 * Cardinality(withOutcome({"player0_wins", "player1_wins"}))
                  + 2 * Cardinality(withOutcome({"draw"}))

\* a tournament of three decks with a won, a drawn and an unresolved matchup
C21_Witness ==
    /\ standings.returned
    /\ Len(roundRobinCall.decks) = 3
    /\ withOutcome({"player0_wins", "player1_wins"}) # {}
    /\ withOutcome({"draw"}) # {}
    /\ withOutcome({"unresolved"}) # {}
    /\ \E d \in deckIndices : wonBy(d) # {} /\ drawnBy(d) # {}

(***************************************************************************)
(* Properties of the abilities parseOracleText returns                     *)
(***************************************************************************)
\* some rule of parseLine matches the trimmed, non-empty line
matchesRule(line) ==
    \/ tryParseKeywordLine(line) # null
    \/ tryParseWard(line) # null
    \/ tryParseProtection(line) # null
    \/ tryParseEtbDamage(line) # null
    \/ tryParseEtbLifeGain(line) # null
    \/ tryParseEtbCreateToken(line) # null
    \/ tryParseTapDamage(line) # null
    \/ tryParseTapLifeGain(line) # null
    \/ tryParseStaticPtModifier(line) # null

\* the lines of the text as written, between the newlines
writtenLines == split(parseCall.text, NewLine)

\* the lines with the white space at their ends removed
strippedLines == [k \in 1..Len(writtenLines) |-> trim(writtenLines[k])]

\* the non-empty lines among lines that match no rule
unmatched(lines) ==
    SelectSeq(lines, LAMBDA line : /\ line # <<>>
                                   /\ (trim(line) = <<>> \/ ~matchesRule(trim(line))))

\* one unresolved ability per line, carrying the text of the line
unresolvedFor(lines) ==
    [k \in 1..Len(lines) |->
        [kind |-> "unresolved", oracleText |-> join(lines[k], ""),
         reason |-> "no matching parser rule"]]

unresolvedIn(abilities) ==
    SelectSeq(abilities, LAMBDA ability : ability.kind = "unresolved")

recognizedIn(abilities) ==
    SelectSeq(abilities, LAMBDA ability : ability.kind # "unresolved")

whitespaceOnly(text) == \A k \in 1..Len(text) : text[k] \in {Space, NewLine}

RECURSIVE recognizedCount(_)
\* the number of abilities the rules recognize on the lines that match one
recognizedCount(lines) ==
    IF lines = <<>> THEN 0
    ELSE (IF lines[1] # <<>> /\ matchesRule(lines[1]) THEN Len(parseLine(lines[1])) ELSE 0)
            + recognizedCount(Tail(lines))

\* the output of every line is one unresolved ability or recognized abilities
neverBoth(lines) ==
    \A k \in 1..Len(lines) :
        lines[k] # <<>> =>
            \/ /\ ~matchesRule(lines[k])
               /\ Len(parseLine(lines[k])) = 1
               /\ recognizedIn(parseLine(lines[k])) = <<>>
            \/ /\ matchesRule(lines[k])
               /\ parseLine(lines[k]) # <<>>
               /\ unresolvedIn(parseLine(lines[k])) = <<>>

resolveRoundReturned == lastCall.op = "resolveRound" /\ lastCall.returned

\* the rows of the matchups table that belong to the round
matchupsOfRound(table, roundId) == SelectSeq(table, LAMBDA row : row.roundId = roundId)

\* the positions in list of the matchups between the two players, either way round
between(list, a, b) ==
    {k \in 1..Len(list) : {list[k].player0Did, list[k].player1Did} = {a, b}}

unresolvedAmong(list) == {k \in 1..Len(list) : list[k].outcome = "unresolved"}

\* the round resolveRound worked on had these submissions when it was called
submittedTo(roundId) == getSubmissionsForRound(submissions, roundId)

\* what resolveRound must leave behind when it went through
resolvedAllPairs(roundId, subs, evaluated, recorded) ==
    /\ lastCall.rounds[roundId].phase = "submission"
    /\ Len(subs) >= 2
    /\ lastCall.result.submissions = subs
    /\ matchupsOfRound(lastCall.matchups, roundId) = <<>>
    /\ \A a \in 1..Len(subs), b \in 1..Len(subs) :
          a < b => /\ Cardinality(between(evaluated, subs[a].playerDid, subs[b].playerDid)) = 1
                   /\ Cardinality(between(recorded, subs[a].playerDid, subs[b].playerDid)) = 1
    /\ 2 * Len(evaluated) = Len(subs) * (Len(subs) - 1)
    /\ Len(recorded) = Len(evaluated)
    /\ \A k \in 1..Len(recorded) :
          /\ recorded[k].player0Did = evaluated[k].player0Did
          /\ recorded[k].player1Did = evaluated[k].player1Did
          /\ recorded[k].outcome = evaluated[k].outcome
    /\ lastCall.result.unresolvedCount = Cardinality(unresolvedAmong(evaluated))
    /\ rounds[roundId].phase =
          IF unresolvedAmong(recorded) # {} THEN "judging" ELSE "complete"

allJudged(table, roundId) ==
    \A k \in 1..Len(table) :
        (table[k].roundId = roundId /\ table[k].outcome = "unresolved")
            => table[k].judgeResolution # "null"

\* the active round was in phase judging with every unresolved matchup judged
judgingDone(table, roundId) ==
    /\ roundId # 0
    /\ table[roundId].phase = "judging"
    /\ allJudged(matchups, roundId)

\* C27: checkJudgingComplete returns true, and moves the active round from
\* judging to complete, exactly when the active round is in phase judging and
\* none of its matchups is unresolved without a judge resolution; otherwise
\* it returns false and leaves every phase as it was.  It never changes a
\* matchup.
C27_JudgingCompletesWhenAllJudged ==
    lastCall.op = "checkJudgingComplete" =>
        /\ lastCall.roundId = getActiveRound(lastCall.rounds)
        /\ lastCall.returned = judgingDone(lastCall.rounds, lastCall.roundId)
        /\ lastCall.returned =>
              rounds = [lastCall.rounds EXCEPT ![lastCall.roundId].phase = "complete"]
        /\ ~lastCall.returned => rounds = lastCall.rounds
        /\ matchups = lastCall.matchups

\* checkJudgingComplete completed a round whose unresolved matchups were judged
C27_Witness ==
    /\ lastCall.op = "checkJudgingComplete"
    /\ lastCall.returned
    /\ unresolvedAmong(matchupsOfRound(matchups, lastCall.roundId)) # {}
    /\ rounds[lastCall.roundId].phase = "complete"

(***************************************************************************)
(* Properties of the phases of a turn                                      *)
(***************************************************************************)
\* applyAction was applied to an offered action
stepped == lastAction.type # "none"

\* applyAction left the turn to the same player
sameTurn == game.activePlayer = before.activePlayer /\ game.turn = before.turn

\* applyAction handed the turn to the other player, in main_precombat
turnPassed ==
    /\ game.activePlayer = opponent(before.activePlayer)
    /\ game.phase = "main_precombat"
    /\ game.combat.isNull

\* the steps inside a turn up to combat damage
upToCombatDamage ==
    {<<"main_precombat", "declare_attackers">>,
     <<"declare_attackers", "declare_blockers">>,
     <<"declare_blockers", "first_strike_damage">>,
     <<"declare_blockers", "combat_damage">>,
     <<"first_strike_damage", "combat_damage">>}

\* C28 as stated: within a turn the phase moves only along main_precombat ->
\* declare_attackers -> declare_blockers -> [first_strike_damage ->]
\* combat_damage -> main_postcombat -> cleanup, and the active player switches
\* after cleanup only, in every turn in which attackers are declared.
C28_TurnEndsThroughCleanup ==
    stepped =>
        \/ sameTurn /\ <<before.phase, game.phase>> \in
               upToCombatDamage \cup {<<"combat_damage", "main_postcombat">>,
                                      <<"main_postcombat", "cleanup">>}
        \/ turnPassed /\ before.phase = "cleanup"
        \/ turnPassed /\ before.phase = "declare_attackers"
                      /\ Len(lastAction.attackerIds) = 0

\* C28, as the code has it: within a turn the phase moves only along
\* main_precombat -> declare_attackers -> declare_blockers ->
\* [first_strike_damage ->] combat_damage; the turn passes to the other player,
\* in main_precombat, from combat_damage and from a declaration of no attackers;
\* main_postcombat and cleanup are never entered.
C28_TurnEndsAfterCombatDamage ==
    /\ game.phase \notin {"main_postcombat", "cleanup"}
    /\ stepped =>
          \/ sameTurn /\ <<before.phase, game.phase>> \in upToCombatDamage
                      /\ (before.phase = "declare_attackers"
                             => Len(lastAction.attackerIds) > 0)
          \/ /\ turnPassed
             /\ \/ before.phase = "combat_damage"
                \/ before.phase = "declare_attackers" /\ Len(lastAction.attackerIds) = 0

\* a turn with attackers and a first-strike step ended by the pass of combat_damage
C28_Witness ==
    /\ stepped
    /\ before.phase = "combat_damage"
    /\ ~before.combat.isNull
    /\ Len(before.combat.attackers) > 0
    /\ firstStrikeDead # {}
    /\ turnPassed

(***************************************************************************)
(* Properties of a combat over its two damage steps                        *)
(***************************************************************************)
\* applyAction resolved a damage step of a declared combat
damageStepResolved ==
    /\ lastAction.type = "pass"
    /\ before.phase \in {"first_strike_damage", "combat_damage"}
    /\ ~before.combat.isNull

\* the attacker was assigned at least one blocker in DeclareBlockers
wasBlocked(combat, attackerId) ==
    MapHas(combat.blockers, attackerId) /\ Len(MapGet(combat.blockers, attackerId)) > 0

\* the attackers of the combat that are on the battlefield before the step
attackersBefore == permsOfIds(before.combat.attackers, getActivePlayer(before).battlefield)

\* C29: over the damage steps of a combat, an attacker without trample that
\* was assigned at least one blocker never reduces the defending player's
\* life, also when all of its blockers were destroyed in the first-strike step:
\* a step in which every attacker is such an attacker leaves the defending
\* player's life at least as it was.
C29_BlockedAttackerSparesPlayer ==
    (/\ damageStepResolved
     /\ \A k \in 1..Len(attackersBefore) :
           /\ wasBlocked(before.combat, attackersBefore[k].id)
           /\ ~hasKeyword(attackersBefore[k], "trample"))
        => game.players[opponent(before.activePlayer)].life
              >= before.players[opponent(before.activePlayer)].life

\* the total a damage map of resolveCombatDamage holds for the permanent
damageOn(damage, id) == IF MapHas(damage, id) THEN MapGet(damage, id).total ELSE 0

\* the damage the step just resolved dealt to each permanent
stepDamage ==
    resolveCombatDamage(
        attackersBefore,
        buildBlockerPermMap(before.combat.blockers, getDefendingPlayer(before)),
        before.activePlayer, before.phase = "first_strike_damage").damage

\* the permanents on the two battlefields before the step
permsBefore == before.players[0].battlefield \o before.players[1].battlefield

\* C30: damage dealt to a creature in the first-strike step stays marked on it
\* through the regular step of the same combat: a creature that survived the
\* first-strike step with damage is destroyed in the regular step when its
\* first-strike damage plus its regular-step damage is at least its toughness
\* (unless it is indestructible).
C30_FirstStrikeDamageStaysMarked ==
    (damageStepResolved /\ before.phase = "combat_damage")
        => \A k \in 1..Len(permsBefore) :
              (/\ damageOn(firstStrikeDamage, permsBefore[k].id) > 0
               /\ damageOn(firstStrikeDamage, permsBefore[k].id)
                     + damageOn(stepDamage, permsBefore[k].id)
                        >= getEffectiveToughness(permsBefore[k])
               /\ ~hasKeyword(permsBefore[k], "indestructible"))
                  => permsBefore[k].id \notin idsOnBattlefield(game)

(***************************************************************************)
(* Properties of the combat state of a game                                *)
(***************************************************************************)
\* the ids of the creatures on a player's battlefield
creatureIds(player) ==
    {player.battlefield[k].id :
        k \in {i \in 1..Len(player.battlefield) :
                  "creature" \in player.battlefield[i].card.types}}

\* the blocker ids the combat state holds
blockerIdsOf(combat) == UNION {Range(combat.blockers[e].val) : e \in 1..Len(combat.blockers)}

\* C31: whenever combat is not null, every id in combat.attackers is the id
\* of a creature on the active player's battlefield and every blocker id in
\* combat.blockers is the id of a creature on the defending player's
\* battlefield, also in combat_damage after a first-strike step.
C31_CombatantsOnBattlefield ==
    ~game.combat.isNull =>
        /\ Range(game.combat.attackers) \subseteq creatureIds(getActivePlayer(game))
        /\ blockerIdsOf(game.combat) \subseteq creatureIds(getDefendingPlayer(game))

(***************************************************************************)
(* Properties of DeclareAttackers and summoning sickness                   *)
(***************************************************************************)
\* applyAction applied DeclareAttackers(ids) with ids not empty
attackDeclared ==
    lastAction.type = "declare_attackers" /\ Len(lastAction.attackerIds) > 0

\* the permanents on the two battlefields after the step
permsAfter == game.players[0].battlefield \o game.players[1].battlefield

\* C32 as stated: after DeclareAttackers(ids) every permanent whose id is in
\* ids has summoningSick = false.
C32_AttackersNotSummoningSick ==
    attackDeclared =>
        \A k \in 1..Len(permsAfter) :
            permsAfter[k].id \in Range(lastAction.attackerIds)
                => ~permsAfter[k].summoningSick

\* C32, as the code has it: DeclareAttackers(ids) with ids not empty leaves the
\* summoningSick flag of every permanent, declared or not, as it was.
C32_AttackersKeepSummoningSick ==
    attackDeclared =>
        /\ Len(permsAfter) = Len(permsBefore)
        /\ \A k \in 1..Len(permsAfter) :
              /\ permsAfter[k].id = permsBefore[k].id
              /\ permsAfter[k].summoningSick = permsBefore[k].summoningSick

\* a haste creature attacked in the turn it was cast and is still summoning-sick
C32_Witness ==
    /\ attackDeclared
    /\ \E k \in 1..Len(permsAfter) :
          /\ permsAfter[k].id \in Range(lastAction.attackerIds)
          /\ hasKeyword(permsAfter[k], "haste")
          /\ permsAfter[k].summoningSick

(***************************************************************************)
(* Properties of DeclareBlockers and the damage steps it leads to          *)
(***************************************************************************)
\* applyAction applied DeclareBlockers to a declared combat
blocksDeclared == lastAction.type = "declare_blockers" /\ ~before.combat.isNull

\* the permanent has first_strike or double_strike
strikesFirst(perm) == hasKeyword(perm, "first_strike") \/ hasKeyword(perm, "double_strike")

\* the attackers of the combat before the step that strike first
firstStrikingAttackers ==
    {p \in Range(getActivePlayer(before).battlefield) :
        p.id \in Range(before.combat.attackers) /\ strikesFirst(p)}

\* the blockers the declared assignment lists that strike first
firstStrikingBlockers ==
    {p \in Range(getDefendingPlayer(before).battlefield) :
        /\ \E e \in 1..Len(lastAction.assignment) :
               p.id \in Range(lastAction.assignment[e].val)
        /\ strikesFirst(p)}

\* C33: after DeclareBlockers the phase is first_strike_damage if and only if
\* an attacker or an assigned blocker has first_strike or double_strike, and is
\* combat_damage otherwise; first_strike_damage is entered in no other way, and
\* the step resolved in combat_damage ends the combat, so a combat without
\* first or double strikers resolves exactly one damage step.
C33_FirstStrikeStepIffStrikers ==
    /\ blocksDeclared =>
          /\ game.phase = IF firstStrikingAttackers \cup firstStrikingBlockers # {}
                          THEN "first_strike_damage" ELSE "combat_damage"
          /\ game.combat.blockers = lastAction.assignment
          /\ game.combat.attackers = before.combat.attackers
          /\ game.players = before.players
    /\ (stepped /\ game.phase = "first_strike_damage") => blocksDeclared
    /\ (stepped /\ game.phase = "combat_damage") =>
           \/ blocksDeclared
           \/ before.phase = "first_strike_damage" /\ lastAction.type = "pass"
    /\ (stepped /\ before.phase = "combat_damage") =>
           game.phase = "main_precombat" /\ game.combat.isNull

\* a first-strike step is entered because of a blocker alone
C33_Witness ==
    /\ blocksDeclared
    /\ firstStrikingAttackers = {}
    /\ firstStrikingBlockers # {}
    /\ game.phase = "first_strike_damage"

(***************************************************************************)
(* Properties of Cast                                                      *)
(***************************************************************************)
\* applyAction applied Cast(S)
castApplied == lastAction.type = "cast"

\* the hand indices (from 0) that were cast, and how many of them lie below i
castIndices == Range(lastAction.cardIndices)

castBelow(i) == Cardinality({j \in castIndices : j < i})

\* the caster before and after the step
casterBefore == before.players[before.activePlayer]

casterAfter == game.players[before.activePlayer]

\* C34: Cast(S) removes exactly the cards at the hand indices in S from the
\* active player's hand, keeping the order of the rest; appends one new
\* permanent per cast card to the end of that player's battlefield, in
\* increasing hand-index order with ids nextPermanentId, nextPermanentId + 1,
\* ..., each untapped and summoning-sick; increases nextPermanentId by |S|;
\* sets the phase to declare_attackers; and leaves the other player's state,
\* both life totals and both graveyards unchanged.
C34_CastMovesCardsToBattlefield ==
    castApplied =>
        /\ before.phase \in {"main_precombat", "main_postcombat"}
        /\ castIndices \subseteq 0..(Len(casterBefore.hand) - 1)
        /\ Len(casterAfter.hand) = Len(casterBefore.hand) - Cardinality(castIndices)
        /\ Len(casterAfter.battlefield)
              = Len(casterBefore.battlefield) + Cardinality(castIndices)
        /\ \A i \in 0..(Len(casterBefore.hand) - 1) :
              IF i \in castIndices
              THEN casterAfter.battlefield[Len(casterBefore.battlefield) + castBelow(i) + 1]
                     = [card |-> casterBefore.hand[i + 1], tapped |-> FALSE,
                        summoningSick |-> TRUE, damageMarked |-> 0, isToken |-> FALSE,
                        id |-> before.nextPermanentId + castBelow(i)]
              ELSE casterAfter.hand[i + 1 - castBelow(i)] = casterBefore.hand[i + 1]
        /\ SubSeq(casterAfter.battlefield, 1, Len(casterBefore.battlefield))
              = casterBefore.battlefield
        /\ game.nextPermanentId = before.nextPermanentId + Cardinality(castIndices)
        /\ game.phase = "declare_attackers"
        /\ game.activePlayer = before.activePlayer
        /\ game.players[opponent(before.activePlayer)]
              = before.players[opponent(before.activePlayer)]
        /\ casterAfter.life = casterBefore.life
        /\ casterAfter.graveyard = casterBefore.graveyard

\* a player's second card is cast onto the battlefield that holds the first,
\* after the other player cast both cards at once
C34_Witness ==
    /\ castApplied
    /\ castIndices = {0}
    /\ Len(casterBefore.battlefield) = 1
    /\ Len(before.players[opponent(before.activePlayer)].battlefield) = 2
    /\ before.nextPermanentId = 3
    /\ casterAfter.battlefield[2].id = 3

(***************************************************************************)
(* Properties of advanceTurn                                               *)
(***************************************************************************)
\* applyAction ended the turn: by a declaration of no attackers or by the pass
\* of combat_damage
turnEnded ==
    \/ lastAction.type = "declare_attackers" /\ Len(lastAction.attackerIds) = 0
    \/ lastAction.type = "pass" /\ before.phase = "combat_damage"

\* the state advanceTurn was called on: before, after the damage of the step
ending == IF before.phase = "combat_damage" THEN resolveCombatStep(before, FALSE)
          ELSE before

\* the battlefields of the player whose turn begins and of the one whose turn ended
beginnerWas == ending.players[opponent(before.activePlayer)].battlefield

beginnerIs == game.players[opponent(before.activePlayer)].battlefield

enderWas == ending.players[before.activePlayer].battlefield

enderIs == game.players[before.activePlayer].battlefield

\* C35: ending a turn untaps and clears summoningSick on exactly the new
\* active player's permanents, sets the phase to main_precombat and combat to
\* null, and leaves unchanged the tapped and summoningSick flags of the other
\* player's permanents, both life totals, hands and graveyards, the permanents
\* with their ids, nextPermanentId and stateHistory.
C35_AdvanceTurnFrame ==
    turnEnded =>
        /\ game.activePlayer = opponent(before.activePlayer)
        /\ game.turn = before.turn + (IF before.activePlayer = 1 THEN 1 ELSE 0)
        /\ game.phase = "main_precombat"
        /\ game.combat.isNull
        /\ Len(beginnerIs) = Len(beginnerWas) /\ Len(enderIs) = Len(enderWas)
        /\ \A k \in 1..Len(beginnerIs) :
              /\ ~beginnerIs[k].tapped /\ ~beginnerIs[k].summoningSick
              /\ beginnerIs[k].id = beginnerWas[k].id
              /\ beginnerIs[k].card = beginnerWas[k].card
        /\ \A k \in 1..Len(enderIs) :
              /\ enderIs[k].tapped = enderWas[k].tapped
              /\ enderIs[k].summoningSick = enderWas[k].summoningSick
              /\ enderIs[k].id = enderWas[k].id
              /\ enderIs[k].card = enderWas[k].card
        /\ \A i \in {0, 1} :
              /\ game.players[i].life = ending.players[i].life
              /\ game.players[i].hand = ending.players[i].hand
              /\ game.players[i].graveyard = ending.players[i].graveyard
        /\ game.nextPermanentId = before.nextPermanentId
        /\ game.stateHistory = before.stateHistory

\* a turn ends: a tapped permanent of the player whose turn begins is untapped,
\* a tapped, summoning-sick permanent of the other player stays as it is
C35_Witness ==
    /\ turnEnded
    /\ \E k \in 1..Len(beginnerWas) : beginnerWas[k].tapped
    /\ \E k \in 1..Len(enderIs) : enderIs[k].tapped /\ enderIs[k].summoningSick

(***************************************************************************)
(* Properties of the set of assignments enumerateBlockAssignments returns  *)
(***************************************************************************)
\* the ids of the attackers and of the potential blockers of the call
attackerIdsOfCall == idsOf(blockCall.attackers)

blockerIdsOfCall == idsOf(blockCall.potentialBlockers)

\* how often the blocker is listed under the attacker in the assignment
timesListed(assignment, attackerId, blockerId) ==
    Cardinality({<<e, k>> \in (1..Len(assignment)) \X (1..MaxBlockers) :
                    /\ assignment[e].key = attackerId
                    /\ k <= Len(assignment[e].val)
                    /\ assignment[e].val[k] = blockerId})

\* the assignment is a mapping: its keys are distinct attackers with a list
\* that is not empty, and no blocker is listed twice, under one attacker or two
isMapping(assignment) ==
    /\ \A e \in 1..Len(assignment) :
          /\ assignment[e].key \in attackerIdsOfCall
          /\ assignment[e].val # <<>>
          /\ \A d \in 1..Len(assignment) : assignment[d].key = assignment[e].key => d = e
    /\ \A b \in blockerIdsOfCall :
          Cardinality({a \in attackerIdsOfCall : timesListed(assignment, a, b) > 0}) <= 1
    /\ \A b \in blockerIdsOfCall, a \in attackerIdsOfCall :
          timesListed(assignment, a, b) <= 1

\* whom each potential blocker blocks in the assignment: the set of the
\* attackers it is listed under
choiceOf(assignment) ==
    [b \in blockerIdsOfCall |->
        {a \in attackerIdsOfCall : timesListed(assignment, a, b) > 0}]

\* a blocker blocks nobody or one attacker
noneOrOne == {{}} \cup {{a} : a \in attackerIdsOfCall}

\* the blocker may block the attacker: an untapped creature, with flying or
\* reach if the attacker flies
mayBlock(blockerId, attackerId) ==
    /\ ~permOfCall(blockerId).tapped
    /\ "creature" \in permOfCall(blockerId).card.types
    /\ flyer(permOfCall(attackerId)) => reaches(permOfCall(blockerId))

\* every blocker blocks nobody or one attacker it may block, and no menace
\* attacker has exactly one blocker
legalChoices ==
    {f \in [blockerIdsOfCall -> noneOrOne] :
        /\ \A b \in blockerIdsOfCall : \A a \in f[b] : mayBlock(b, a)
        /\ \A a \in attackerIdsOfCall :
              "menace" \in getKeywords(permOfCall(a).card)
                 => Cardinality({b \in blockerIdsOfCall : a \in f[b]}) # 1}

\* C36: with at least one attacker enumerateBlockAssignments returns, each
\* exactly once, precisely the mappings in which every potential blocker does
\* not block or blocks one attacker it can legally block, minus those in which
\* a menace attacker has exactly one blocker; no blocker appears under two
\* attackers; with no attackers it returns the single empty assignment.
C36_ExactlyTheLegalAssignments ==
    blockResult.called =>
        IF blockCall.attackers = <<>>
        THEN blockResult.assignments = << <<>> >>
        ELSE /\ \A i \in 1..Len(blockResult.assignments) :
                  isMapping(blockResult.assignments[i])
             /\ \A i, j \in 1..Len(blockResult.assignments) :
                  choiceOf(blockResult.assignments[i]) = choiceOf(blockResult.assignments[j])
                     => i = j
             /\ {choiceOf(blockResult.assignments[i]) :
                     i \in 1..Len(blockResult.assignments)} = legalChoices

\* two attackers, one of them flying, faced blockers of which one may block
\* both and one only the other; the assignments hold a double block and a
\* block of each attacker at once
C36_Witness ==
    /\ blockResult.called
    /\ Len(blockCall.attackers) = 2
    /\ \E b \in blockerIdsOfCall : \A a \in attackerIdsOfCall : mayBlock(b, a)
    /\ \E b \in blockerIdsOfCall :
          Cardinality({a \in attackerIdsOfCall : mayBlock(b, a)}) = 1
    /\ \E i \in 1..Len(blockResult.assignments) :
          \E e \in 1..Len(blockResult.assignments[i]) :
             Len(blockResult.assignments[i][e].val) >= 2
    /\ \E i \in 1..Len(blockResult.assignments) : Len(blockResult.assignments[i]) = 2

(***************************************************************************)
(* Properties of the order of an attacker's blockers                       *)
(***************************************************************************)
\* the position of the permanent with the id on the battlefield, 0 if it is
\* not there
positionOn(battlefield, id) ==
    IF \E k \in 1..Len(battlefield) : battlefield[k].id = id
    THEN CHOOSE k \in 1..Len(battlefield) : battlefield[k].id = id
    ELSE 0

\* the ids are listed in the order of the battlefield, each once
inBattlefieldOrder(ids, battlefield) ==
    /\ \A k \in 1..Len(ids) : positionOn(battlefield, ids[k]) > 0
    /\ \A j, k \in 1..Len(ids) :
          j < k => positionOn(battlefield, ids[j]) < positionOn(battlefield, ids[k])

\* the blockers listed for the attacker that are on the defender's battlefield
\* before the step, in listed order
survivingBlockers(attackerId) ==
    IF MapHas(before.combat.blockers, attackerId)
    THEN LET declared == MapGet(before.combat.blockers, attackerId)
             there == SelectSeq(declared,
                         LAMBDA id : positionOn(getDefendingPlayer(before).battlefield, id) > 0)
         IN  [k \in 1..Len(there) |->
                 getDefendingPlayer(before).battlefield[
                     positionOn(getDefendingPlayer(before).battlefield, there[k])]]
    ELSE <<>>

\* the damage the step assigned from the source to the target
RECURSIVE sumAmounts(_, _, _, _)
sumAmounts(assignments, k, sourceId, targetId) ==
    IF k > Len(assignments) THEN 0
    ELSE sumAmounts(assignments, k + 1, sourceId, targetId)
           + (IF assignments[k].sourceId = sourceId /\ assignments[k].targetId = targetId
              THEN assignments[k].amount ELSE 0)

received(sourceId, targetId) == sumAmounts(lastDamage.assignments, 1, sourceId, targetId)

\* what is lethal to the blocker from the attacker
lethalFrom(attacker, blocker) ==
    IF hasKeyword(attacker, "deathtouch") THEN 1 ELSE getEffectiveToughness(blocker)

\* the damage of the attacker in listed order: lethal damage to each blocker
\* while it lasts, and all that is left to the last one
RECURSIVE inOrder(_, _, _, _)
inOrder(attacker, blockers, k, remaining) ==
    IF k > Len(blockers) THEN TRUE
    ELSE LET due == IF k = Len(blockers) THEN remaining
                    ELSE IF remaining < lethalFrom(attacker, blockers[k]) THEN remaining
                    ELSE lethalFrom(attacker, blockers[k])
         IN  /\ received(attacker.id, blockers[k].id) = due
             /\ inOrder(attacker, blockers, k + 1, remaining - due)

\* C37: every declared blocker list is in the order of the defender's
\* battlefield, and a damage step keeps that order: an attacker without
\* trample assigns lethal damage to its surviving blockers in listed order and
\* all of its excess to the last-listed surviving blocker.
C37_BlockerOrderKept ==
    /\ blocksDeclared =>
          \A e \in 1..Len(lastAction.assignment) :
              inBattlefieldOrder(lastAction.assignment[e].val,
                                 getDefendingPlayer(before).battlefield)
    /\ damageStepResolved =>
          \A k \in 1..Len(attackersBefore) :
              (/\ survivingBlockers(attackersBefore[k].id) # <<>>
               /\ ~hasKeyword(attackersBefore[k], "trample")
               /\ getEffectivePower(attackersBefore[k]) > 0
               /\ dealsDamageInStep(attackersBefore[k], before.phase = "first_strike_damage"))
                  => inOrder(attackersBefore[k], survivingBlockers(attackersBefore[k].id),
                             1, getEffectivePower(attackersBefore[k]))

\* a regular step after a first-strike step that destroyed a listed blocker:
\* the attacker's excess goes to the one blocker that survived
C37_Witness ==
    /\ damageStepResolved
    /\ before.phase = "combat_damage"
    /\ \E k \in 1..Len(attackersBefore) :
          /\ MapHas(before.combat.blockers, attackersBefore[k].id)
          /\ Len(MapGet(before.combat.blockers, attackersBefore[k].id)) = 2
          /\ Len(survivingBlockers(attackersBefore[k].id)) = 1
          /\ received(attackersBefore[k].id, survivingBlockers(attackersBefore[k].id)[1].id)
                > getEffectiveToughness(survivingBlockers(attackersBefore[k].id)[1])
    /\ \E q \in firstStrikeDead : q.card.name = "Bear"

(***************************************************************************)
(* Properties of the excess damage of a blocked attacker                   *)
(***************************************************************************)
\* what is lethal to the k-th blocker of the attacker: 1 from a deathtouch
\* attacker, the blocker's toughness otherwise
lethalTo(attacker, k) ==
    IF hasKeyword(attacker, "deathtouch") THEN 1
    ELSE getEffectiveToughness(blockersOf(attacker)[k])

RECURSIVE lethalSum(_, _)
\* the sum of the lethal amounts of the first n blockers of the attacker
lethalSum(attacker, n) ==
    IF n = 0 THEN 0 ELSE lethalSum(attacker, n - 1) + lethalTo(attacker, n)

\* the power the attacker has left after lethal damage to all of its blockers
excessOf(attacker) ==
    Max(0, getEffectivePower(attacker) - lethalSum(attacker, Len(blockersOf(attacker))))

\* C38: a blocked attacker with trample that deals damage in the step deals
\* the defending player max(0, power - sum of the lethal amounts of its
\* blockers), the lethal amount being 1 from a deathtouch attacker and the
\* blocker's toughness otherwise; a blocked attacker without trample deals the
\* player nothing and its last blocker that excess on top of lethal damage.
C38_ExcessToPlayerOrLastBlocker ==
    combatResult.called =>
        \A i \in 1..Len(combatCall.attackers) :
            (strikes(combatCall.attackers[i]) /\ blockersOf(combatCall.attackers[i]) # <<>>)
                => IF hasKeyword(combatCall.attackers[i], "trample")
                   THEN dealt(combatCall.attackers[i].id, {Player})
                          = excessOf(combatCall.attackers[i])
                   ELSE /\ dealt(combatCall.attackers[i].id, {Player}) = 0
                        /\ excessOf(combatCall.attackers[i]) > 0
                             => dealt(combatCall.attackers[i].id,
                                      {blockersOf(combatCall.attackers[i])[
                                          Len(blockersOf(combatCall.attackers[i]))].id})
                                  = lethalTo(combatCall.attackers[i],
                                             Len(blockersOf(combatCall.attackers[i])))
                                      + excessOf(combatCall.attackers[i])

\* a deathtouch trampler with two blockers deals each of them 1 and the player
\* the rest
C38_Witness ==
    /\ combatResult.called
    /\ \E i \in 1..Len(combatCall.attackers) :
          /\ strikes(combatCall.attackers[i])
          /\ hasKeyword(combatCall.attackers[i], "trample")
          /\ hasKeyword(combatCall.attackers[i], "deathtouch")
          /\ Len(blockersOf(combatCall.attackers[i])) = 2
          /\ getEffectiveToughness(blockersOf(combatCall.attackers[i])[1]) > 1
          /\ dealt(combatCall.attackers[i].id, {Player})
                = getEffectivePower(combatCall.attackers[i]) - 2
          /\ dealt(combatCall.attackers[i].id, {Player}) > 0

(***************************************************************************)
(* Properties of the cards of a game                                       *)
(***************************************************************************)
\* the cards of the permanents on the player's battlefield
cardsOn(player) == [k \in 1..Len(player.battlefield) |-> player.battlefield[k].card]

\* the cards the player holds in hand, on the battlefield and in the graveyard
cardsOf(player) == player.hand \o cardsOn(player) \o player.graveyard

\* the later sequence is the earlier one with cards appended
grownFrom(later, earlier) ==
    Len(later) >= Len(earlier) /\ SubSeq(later, 1, Len(earlier)) = earlier

\* C39: for each player the cards in hand, on the battlefield and in the
\* graveyard together are exactly the multiset of the player's initial deck;
\* a card moves only from the hand to the battlefield, by Cast, and from the
\* battlefield to the graveyard, by a damage step, and never to the other
\* player.
C39_CardsConserved ==
    \A i \in {0, 1} :
        /\ occurrences(cardsOf(game.players[i])) = occurrences(opening.players[i].hand)
        /\ opening.players[i].battlefield = <<>> /\ opening.players[i].graveyard = <<>>
        /\ stepped =>
              /\ Len(game.players[i].hand) <= Len(before.players[i].hand)
              /\ grownFrom(game.players[i].graveyard, before.players[i].graveyard)
              /\ game.players[i].hand # before.players[i].hand
                    => /\ lastAction.type = "cast" /\ i = before.activePlayer
                       /\ occurrences(game.players[i].hand \o cardsOn(game.players[i]))
                            = occurrences(before.players[i].hand \o cardsOn(before.players[i]))
              /\ game.players[i].graveyard # before.players[i].graveyard
                    => /\ damageStepResolved
                       /\ game.players[i].hand = before.players[i].hand
                       /\ occurrences(cardsOn(game.players[i]) \o game.players[i].graveyard)
                            = occurrences(cardsOn(before.players[i])
                                            \o before.players[i].graveyard)

\* a player whose deck holds a card twice has one copy in the graveyard, put
\* there by the damage step just resolved, and the other on the battlefield
C39_Witness ==
    /\ damageStepResolved
    /\ \E i \in {0, 1} :
          /\ Len(opening.players[i].hand) = 2
          /\ opening.players[i].hand[1] = opening.players[i].hand[2]
          /\ Len(game.players[i].graveyard) = 1
          /\ before.players[i].graveyard = <<>>
          /\ Len(game.players[i].battlefield) = 1

(***************************************************************************)
(* C40: some action is always legal                                        *)
(***************************************************************************)
\* the action of the phase that chooses nothing: the empty cast in a main
\* phase, the empty attack, the assignment without blockers, Pass elsewhere
nothingChosen(state) ==
    CASE state.phase \in {"main_precombat", "main_postcombat"} -> CastAction(<<>>)
      [] state.phase = "declare_attackers" -> DeclareAttackersAction(<<>>)
      [] state.phase = "declare_blockers" /\ ~state.combat.isNull ->
            DeclareBlockersAction(<<>>)
      [] OTHER -> PassAction

legalNow == enumerateLegalActions(game)

\* C40: in every state reached from createInitialState enumerateLegalActions
\* returns at least one action, and the action of the phase that chooses
\* nothing (empty cast, empty attack, no blocker, Pass) is among them.
C40_SomeActionAlwaysLegal ==
    /\ Len(legalNow) > 0
    /\ \E k \in 1..Len(legalNow) : legalNow[k] = nothingChosen(game)

\* attackers have been declared against a player whose only creatures are
\* tapped: the assignment without blockers is the one legal action
C40_Witness ==
    /\ game.phase = "declare_blockers"
    /\ ~game.combat.isNull
    /\ Len(game.combat.attackers) > 0
    /\ Len(getDefendingPlayer(game).battlefield) > 0
    /\ \A i \in 1..Len(getDefendingPlayer(game).battlefield) :
          getDefendingPlayer(game).battlefield[i].tapped
    /\ legalNow = <<DeclareBlockersAction(<<>>)>>

====
